---- MODULE Spec2Model ----
(***************************************************************************)
(* VoicedTrainer: the preprocessing pipeline (topic extraction, question   *)
(* generation, persistence gate) and the interactive session, as state     *)
(* machines.  Text is a sequence of one-character strings, so that the     *)
(* free-text parsers are computed character by character as Python does.   *)
(***************************************************************************)
EXTENDS Integers, Sequences, FiniteSets, TLC

VARIABLES
    \* TextPreprocessor._extract_topics_from_chunks
    e_pc, text_chunks, num_topics, e_i, chunk_summaries, combined_summaries,
    all_potential_topics, final_topics_text, final_topics, e_failures, e_raised,
    \* TextPreprocessor._generate_questions
    g_pc, topics, num_questions, g_i, questions_per_topic, remaining_questions,
    topic_question_count, questions, g_failed, g_raised,
    \* main and TextPreprocessor.preprocess, and the files they keep
    lock_file, lock_run, topic_files, questions_file, runs, run_kind, args, data_file,
    lock_at_start, p_pc, p_i, p_calls, p_ret, p_log, save_failed,
    \* VoiceTrainer.run_interactive_session
    s_pc, s_from, s_stored, s_topics, s_t, s_questions, question_counter,
    follow_up_questions, s_f, follow_up_counter, s_in, s_out, s_reply,
    \* TextPreprocessor._split_text_into_chunks
    c_pc, c_text, chunk_size, paragraphs, c_k, current_chunk, chunks,
    \* one call of a free-text parser
    f_pc, f_name, f_text, f_result,
    \* TextPreprocessor._generate_topic_content
    t_pc, t_title, t_chunks, t_i, relevant_chunks, t_queries, combined_text, t_synth,
    t_content, t_raised,
    \* the thresholds a session that keeps its threshold could be holding
    s_kept

extractVars == <<e_pc, text_chunks, num_topics, e_i, chunk_summaries,
                 combined_summaries, all_potential_topics, final_topics_text,
                 final_topics, e_failures, e_raised>>

genVars == <<g_pc, topics, num_questions, g_i, questions_per_topic,
             remaining_questions, topic_question_count, questions, g_failed, g_raised>>

\* the processed-data directory
fileVars == <<lock_file, lock_run, topic_files, questions_file>>

\* one run of the program
runVars == <<runs, run_kind, args, data_file, lock_at_start, p_pc, p_i, p_calls, p_ret,
             p_log, save_failed>>

pipeVars == <<fileVars, runVars>>

\* one session; s_pc is the blocking call the session waits in, s_from the one it
\* left last, s_in the input, s_reply the collaborator's reply and s_out the outputs
\* of the last step
sessVars == <<s_pc, s_from, s_stored, s_topics, s_t, s_questions, question_counter,
              follow_up_questions, s_f, follow_up_counter, s_in, s_out, s_reply>>

\* one call of the chunker; c_k is the number of paragraphs the loop has taken
chunkVars == <<c_pc, c_text, chunk_size, paragraphs, c_k, current_chunk, chunks>>

\* one call of one of the free-text parsers: f_name is the parser, f_text the reply it
\* is given and f_result the list it returns
parseVars == <<f_pc, f_name, f_text, f_result>>

\* one call of the content generator: t_queries holds the chunk and the outcome of
\* each relevance query in the order they were issued, t_synth the excerpts and the
\* outcome of each synthesis call
contentVars == <<t_pc, t_title, t_chunks, t_i, relevant_chunks, t_queries, combined_text,
                 t_synth, t_content, t_raised>>

\* s_kept goes with the session: the thresholds with which a session that draws its
\* threshold when the follow-up counter is reset, and keeps it until the next reset,
\* would have shown what the session has shown so far
keptVars == <<s_kept>>

vars == <<extractVars, genVars, pipeVars, sessVars, chunkVars, parseVars, contentVars,
          keptVars>>

\* what a step of one function leaves alone: the state of the others
notExtractVars ==
    <<keptVars, contentVars, genVars, pipeVars, sessVars, chunkVars, parseVars>>

notGenVars ==
    <<keptVars, contentVars, extractVars, pipeVars, sessVars, chunkVars, parseVars>>

notPipeVars ==
    <<keptVars, contentVars, extractVars, genVars, sessVars, chunkVars, parseVars>>

notSessVars ==
    <<keptVars, contentVars, extractVars, genVars, pipeVars, chunkVars, parseVars>>

notChunkVars ==
    <<keptVars, contentVars, extractVars, genVars, pipeVars, sessVars, parseVars>>

notParseVars ==
    <<keptVars, extractVars, genVars, pipeVars, sessVars, chunkVars, contentVars>>

notContentVars ==
    <<keptVars, extractVars, genVars, pipeVars, sessVars, chunkVars, parseVars>>

\* what a step of the session that also changes s_kept leaves alone
notSessKeptVars == <<extractVars, genVars, pipeVars, chunkVars, parseVars, contentVars>>

----------------------------------------------------------------------------
(* Bounds of the model *)

MaxNumTopics == 3
MaxReplyLines == 2
MaxSummaryFailures == 1
MaxTopicCount == 3
MaxNumQuestions == 4
MaxBlocks == 2
MaxRuns == 3
MaxSessionTopics == 2
MaxParagraphs == 3
MaxChunkSize == 3
MaxTextLines == 4
MaxContentChunks == 6

----------------------------------------------------------------------------
(* Python str operations on character sequences *)

NL == "\n"

Min(a, b) == IF a < b THEN a ELSE b

Max(a, b) == IF a > b THEN a ELSE b

Digits == <<"0", "1", "2", "3", "4", "5", "6", "7", "8", "9">>

isdigit(c) == c \in {Digits[k] : k \in 1..10}

isspace(c) == c \in {" ", NL, "\t"}

UpperCase == <<"A", "B", "C", "D", "E", "F", "G", "H", "I", "J", "K", "L", "M",
               "N", "O", "P", "Q", "R", "S", "T", "U", "V", "W", "X", "Y", "Z">>

LowerCase == <<"a", "b", "c", "d", "e", "f", "g", "h", "i", "j", "k", "l", "m",
               "n", "o", "p", "q", "r", "s", "t", "u", "v", "w", "x", "y", "z">>

lowerChar(c) ==
    IF \E k \in 1..26 : UpperCase[k] = c
    THEN LowerCase[CHOOSE k \in 1..26 : UpperCase[k] = c]
    ELSE c

\* str.lower()
lower(s) == [k \in 1..Len(s) |-> lowerChar(s[k])]

\* str(n) for a natural number below 100
IntToStr(n) ==
    IF n < 10 THEN <<Digits[n + 1]>>
    ELSE <<Digits[(n \div 10) + 1], Digits[(n % 10) + 1]>>

\* s[a:] with a 0-based
From(s, a) == SubSeq(s, a + 1, Len(s))

\* s.startswith(p)
startswith(s, p) == Len(s) >= Len(p) /\ SubSeq(s, 1, Len(p)) = p

\* s.find(sub) + 1: the 1-based place of the first occurrence, 0 when absent
find(s, sub) ==
    LET hits == {k \in 1..(Len(s) - Len(sub) + 1) : SubSeq(s, k, k + Len(sub) - 1) = sub}
    IN  IF hits = {} THEN 0 ELSE CHOOSE k \in hits : \A j \in hits : k <= j

\* sub in s
contains(s, sub) == find(s, sub) # 0

\* str.strip()
strip(s) ==
    LET keep == {k \in 1..Len(s) : ~isspace(s[k])}
    IN  IF keep = {} THEN <<>>
        ELSE SubSeq(s, CHOOSE k \in keep : \A j \in keep : k <= j,
                       CHOOSE k \in keep : \A j \in keep : k >= j)

\* s.split(sep, 1)
split1(s, sep) ==
    LET p == find(s, sep)
    IN  IF p = 0 THEN <<s>>
        ELSE <<SubSeq(s, 1, p - 1), SubSeq(s, p + Len(sep), Len(s))>>

\* s.split(sep)
RECURSIVE split(_, _)
split(s, sep) ==
    LET p == find(s, sep)
    IN  IF p = 0 THEN <<s>>
        ELSE <<SubSeq(s, 1, p - 1)>> \o split(SubSeq(s, p + Len(sep), Len(s)), sep)

\* sep.join(parts)
RECURSIVE join(_, _)
join(sep, parts) ==
    IF parts = <<>> THEN <<>>
    ELSE IF Len(parts) = 1 THEN parts[1]
    ELSE parts[1] \o sep \o join(sep, Tail(parts))

\* all sequences over S of length at most n
SeqUpTo(S, n) == UNION {[1..k -> S] : k \in 0..n}

----------------------------------------------------------------------------
(* Topic extraction: TextPreprocessor._extract_topics_from_chunks *)

\* batch_size, the number of summaries per batch
BatchSize == 10

Para == <<"p">>

Blank == <<" ">>

\* a document of one summary batch and one more chunk
LongDoc == [k \in 1..(BatchSize + 1) |-> Para]

\* the chunk lists the extractor is called with
ChunkLists == {<<>>, <<Blank>>, <<Para, Blank, Para>>, LongDoc}

\* replies of the summary call
SummaryReplies == {<<"s">>}

\* f"Content from section {i+1}", i the 0-based chunk index
SummaryPlaceholder(i) ==
    <<"C", "o", "n", "t", "e", "n", "t", " ", "f", "r", "o", "m", " ",
      "s", "e", "c", "t", "i", "o", "n", " ">> \o IntToStr(i + 1)

\* Step 2: the summaries in batches of BatchSize, each joined by a blank line
CombineSummaries(summaries) ==
    [b \in 1..((Len(summaries) + BatchSize - 1) \div BatchSize) |->
        join(<<NL, NL>>, SubSeq(summaries, (b - 1) * BatchSize + 1,
                                Min(b * BatchSize, Len(summaries))))]

TopicMarkers ==
    { <<"t", "o", "p", "i", "c", ":">> } \cup { IntToStr(k) \o <<".">> : k \in 1..10 }

TopicColon == <<"t", "o", "p", "i", "c", ":">>

DescriptionColon == <<"d", "e", "s", "c", "r", "i", "p", "t", "i", "o", "n", ":">>

\* current_topic and current_description both truthy: the candidate is saved
SaveCandidate(st) ==
    IF st.topic # <<>> /\ st.desc # <<>>
    THEN Append(st.out, [title |-> st.topic, description |-> st.desc])
    ELSE st.out

\* One line of the batch reply; st = [topic, desc, out], None held as <<>>
CandidateLine(st, raw) ==
    LET line == strip(raw)
        low == lower(line)
    IN  IF line = <<>> THEN st
        ELSE IF \E m \in TopicMarkers : startswith(low, m)
        THEN LET out1 == SaveCandidate(st)
             IN  IF contains(line, <<":">>)
                 THEN IF startswith(low, TopicColon)
                      THEN [topic |-> strip(split1(line, <<":">>)[2]),
                            desc |-> <<>>, out |-> out1]
                      ELSE IF contains(low, TopicColon)
                      THEN [topic |-> strip(split1(low, TopicColon)[2]),
                            desc |-> <<>>, out |-> out1]
                      ELSE [st EXCEPT !.out = out1]
                 ELSE IF contains(line, <<".">>)
                      THEN [topic |-> strip(split1(line, <<".">>)[2]),
                            desc |-> <<>>, out |-> out1]
                      ELSE [st EXCEPT !.out = out1]
        ELSE IF startswith(low, DescriptionColon) /\ st.topic # <<>>
        THEN LET d == strip(split1(line, <<":">>)[2])
             IN  IF d # <<>>
                 THEN [topic |-> <<>>, desc |-> <<>>,
                       out |-> Append(st.out, [title |-> st.topic, description |-> d])]
                 ELSE [st EXCEPT !.desc = d]
        ELSE st

RECURSIVE CandidateLines(_, _)
CandidateLines(st, lines) ==
    IF lines = <<>> THEN st
    ELSE CandidateLines(CandidateLine(st, Head(lines)), Tail(lines))

\* Step 3: the candidates one batch reply adds to all_potential_topics
ParseCandidates(topics_text) ==
    SaveCandidate(CandidateLines([topic |-> <<>>, desc |-> <<>>, out |-> <<>>],
                                 split(topics_text, <<NL>>)))

\* the title of a final-topic line: trimmed, cut at the first colon
FinalTitle(rest) ==
    LET t == strip(rest)
    IN  IF contains(t, <<":">>) THEN strip(split1(t, <<":">>)[1]) ELSE t

\* One line of the consolidation reply: the topics it appends (none or one)
FinalLine(raw) ==
    LET line == strip(raw)
    IN  IF line = <<>> THEN <<>>
        ELSE IF isdigit(line[1]) /\ contains(line, <<".", " ">>)
        THEN <<[title |-> FinalTitle(split1(line, <<".", " ">>)[2]), content |-> <<>>]>>
        ELSE IF startswith(line, <<"-", " ">>) \/ startswith(line, <<"*", " ">>)
        THEN <<[title |-> FinalTitle(From(line, 2)), content |-> <<>>]>>
        ELSE <<>>

RECURSIVE FinalLines(_)
FinalLines(lines) ==
    IF lines = <<>> THEN <<>>
    ELSE FinalLine(Head(lines)) \o FinalLines(Tail(lines))

\* the parse of the consolidation reply
ParseFinalTopics(reply_text) == FinalLines(split(reply_text, <<NL>>))

\* f"Topic {k}"
TopicK(k) == <<"T", "o", "p", "i", "c", " ">> \o IntToStr(k)

\* a variant that keeps every parsed title
TruncateTopics_Keep(ft, n) == ft

\* final_topics[:num_topics], num_topics >= 0
TruncateTopics(ft, n) == SubSeq(ft, 1, Min(n, Len(ft)))

\* while len(final_topics) < num_topics: append "Topic {len + 1}"
RECURSIVE PadTopics(_, _)
PadTopics(ft, n) ==
    IF Len(ft) < n
    THEN PadTopics(Append(ft, [title |-> TopicK(Len(ft) + 1), content |-> <<>>]), n)
    ELSE ft

\* the fallback of a failed consolidation call
DefaultTopics(n) == [k \in 1..n |-> [title |-> TopicK(k), content |-> <<>>]]

\* lines a batch reply is made of
TopicsReplies ==
    { join(<<NL>>, <<<<"T", "o", "p", "i", "c", ":", " ", "A">>,
                     <<"D", "e", "s", "c", "r", "i", "p", "t", "i", "o", "n", ":", " ", "d">>>>),
      join(<<NL>>, <<<<"1", ".", " ", "A", ":", " ", "d">>,
                     <<"2", ".", " ", "B", ":", " ", "e">>>>),
      join(<<NL>>, <<<<"1", ".", " ", "T", "o", "p", "i", "c", ":", " ", "A">>,
                     <<"D", "e", "s", "c", "r", "i", "p", "t", "i", "o", "n", ":", " ", "d">>,
                     <<>>,
                     <<"2", ".", " ", "B">>,
                     <<"D", "e", "s", "c", "r", "i", "p", "t", "i", "o", "n", ":", " ", "e">>>>) }

\* lines a consolidation reply is made of
FinalReplyLines ==
    { <<"1", ".", " ", "A">>,
      <<"2", ".", " ", "A", ":", " ", "d">>,
      <<"-", " ", "B">>,
      <<"*", " ", "T", "o", "p", "i", "c", " ", "2">>,
      <<"3", ".", " ", ":", "x">>,
      <<"H", "i">>,
      <<" ">> }

FinalReplies == {join(<<NL>>, ls) : ls \in SeqUpTo(FinalReplyLines, MaxReplyLines)}

NoFailures == [summary |-> 0, batch |-> 0, final |-> FALSE]

\* the extractor is not running
ExtractIdle ==
    /\ e_pc = "idle"
    /\ text_chunks = <<>>
    /\ num_topics = 0
    /\ e_i = 0
    /\ chunk_summaries = <<>>
    /\ combined_summaries = <<>>
    /\ all_potential_topics = <<>>
    /\ final_topics_text = <<>>
    /\ final_topics = <<>>
    /\ e_failures = NoFailures
    /\ e_raised = FALSE

ExtractInit ==
    /\ e_pc = "summarize"
    /\ text_chunks \in ChunkLists
    /\ num_topics \in 0..MaxNumTopics
    /\ e_i = 0
    /\ chunk_summaries = <<>>
    /\ combined_summaries = <<>>
    /\ all_potential_topics = <<>>
    /\ final_topics_text = <<>>
    /\ final_topics = <<>>
    /\ e_failures = NoFailures
    /\ e_raised = FALSE

\* a variant in which a failed summary call leaves nothing
SummarizeChunk_Skips ==
    /\ e_pc = "summarize"
    /\ e_i < Len(text_chunks)
    /\ e_i' = e_i + 1
    /\ IF strip(text_chunks[e_i + 1]) = <<>>
       THEN UNCHANGED <<chunk_summaries, e_failures>>
       ELSE \/ /\ \E summary \in SummaryReplies :
                    chunk_summaries' = Append(chunk_summaries, summary)
               /\ UNCHANGED e_failures
            \/ /\ e_failures.summary < MaxSummaryFailures
               /\ UNCHANGED chunk_summaries
               /\ e_failures' = [e_failures EXCEPT !.summary = @ + 1]
    /\ UNCHANGED <<e_pc, text_chunks, num_topics, combined_summaries,
                   all_potential_topics, final_topics_text, final_topics, e_raised>>
    /\ UNCHANGED notExtractVars

\* Step 1, one iteration: a blank chunk is skipped, a failed call leaves a placeholder
SummarizeChunk ==
    /\ e_pc = "summarize"
    /\ e_i < Len(text_chunks)
    /\ e_i' = e_i + 1
    /\ IF strip(text_chunks[e_i + 1]) = <<>>
       THEN UNCHANGED <<chunk_summaries, e_failures>>
       ELSE \/ /\ \E summary \in SummaryReplies :
                    chunk_summaries' = Append(chunk_summaries, summary)
               /\ UNCHANGED e_failures
            \/ /\ e_failures.summary < MaxSummaryFailures
               /\ chunk_summaries' = Append(chunk_summaries, SummaryPlaceholder(e_i))
               /\ e_failures' = [e_failures EXCEPT !.summary = @ + 1]
    /\ UNCHANGED <<e_pc, text_chunks, num_topics, combined_summaries,
                   all_potential_topics, final_topics_text, final_topics, e_raised>>
    /\ UNCHANGED notExtractVars

\* Step 2, after the last chunk
BatchSummaries ==
    /\ e_pc = "summarize"
    /\ e_i = Len(text_chunks)
    /\ combined_summaries' = CombineSummaries(chunk_summaries)
    /\ e_pc' = "analyze"
    /\ e_i' = 0
    /\ UNCHANGED <<text_chunks, num_topics, chunk_summaries, all_potential_topics,
                   final_topics_text, final_topics, e_failures, e_raised>>
    /\ UNCHANGED notExtractVars

\* Step 3, one iteration: a failed call adds no candidate
AnalyzeBatch ==
    /\ e_pc = "analyze"
    /\ e_i < Len(combined_summaries)
    /\ e_i' = e_i + 1
    /\ \/ /\ \E topics_text \in TopicsReplies :
               all_potential_topics' = all_potential_topics \o ParseCandidates(topics_text)
          /\ UNCHANGED e_failures
       \/ /\ e_failures' = [e_failures EXCEPT !.batch = @ + 1]
          /\ UNCHANGED all_potential_topics
    /\ UNCHANGED <<e_pc, text_chunks, num_topics, chunk_summaries, combined_summaries,
                   final_topics_text, final_topics, e_raised>>
    /\ UNCHANGED notExtractVars

\* the return of the function: its loop locals are gone; reply is the text of the
\* consolidation reply, held for the properties
ExtractReturn(reply, result, failed) ==
    /\ e_pc' = "returned"
    /\ final_topics_text' = reply
    /\ final_topics' = result
    /\ e_failures' = [e_failures EXCEPT !.final = failed]
    /\ e_i' = 0
    /\ chunk_summaries' = <<>>
    /\ combined_summaries' = <<>>
    /\ all_potential_topics' = <<>>
    /\ UNCHANGED <<text_chunks, num_topics, e_raised>>

\* a variant whose consolidation call is not guarded: its failure reaches the caller
Consolidate_Unguarded ==
    /\ e_pc = "analyze"
    /\ e_i = Len(combined_summaries)
    /\ UNCHANGED notExtractVars
    /\ \/ \E reply \in FinalReplies :
            ExtractReturn(reply,
                          PadTopics(TruncateTopics(ParseFinalTopics(reply), num_topics),
                                    num_topics),
                          FALSE)
       \/ /\ e_pc' = "raised"
          /\ e_raised' = TRUE
          /\ e_failures' = [e_failures EXCEPT !.final = TRUE]
          /\ UNCHANGED <<text_chunks, num_topics, e_i, chunk_summaries,
                         combined_summaries, all_potential_topics, final_topics_text,
                         final_topics>>

\* Step 4 and the exact-count step, or the fallback of a failed call
Consolidate ==
    /\ e_pc = "analyze"
    /\ e_i = Len(combined_summaries)
    /\ UNCHANGED notExtractVars
    /\ \/ \E reply \in FinalReplies :
            ExtractReturn(reply,
                          PadTopics(TruncateTopics(ParseFinalTopics(reply), num_topics),
                                    num_topics),
                          FALSE)
       \/ ExtractReturn(<<>>, DefaultTopics(num_topics), TRUE)

ExtractNext == SummarizeChunk \/ BatchSummaries \/ AnalyzeBatch \/ Consolidate

Titles(ts) == [k \in 1..Len(ts) |-> ts[k].title]

\* C1: the extractor returns exactly num_topics topics, whatever the chunks, the
\* replies and the failures were.
C1_ExactTopicCount ==
    e_pc = "returned" => Len(final_topics) = num_topics

\* C1: a reply with more titles than asked for was cut, and one with fewer was padded
C1_Witness ==
    /\ e_pc = "returned"
    /\ ~e_failures.final
    /\ \/ Len(ParseFinalTopics(final_topics_text)) > num_topics
       \/ /\ Len(ParseFinalTopics(final_topics_text)) = 1
          /\ num_topics = 3
          /\ final_topics[3].title = TopicK(3)

\* C2: the titles the extractor returns are pairwise distinct.
C2_UniqueTitles ==
    e_pc = "returned" =>
        \A i, j \in 1..Len(final_topics) :
            i # j => final_topics[i].title # final_topics[j].title

\* C3: no failure of a collaborator call reaches the caller: the function is never
\* left by an exception, it returns, and after a failed consolidation call it returns
\* the placeholders "Topic 1" .. "Topic N" with empty content.
C3_NeverRaises ==
    /\ e_raised = FALSE
    /\ e_pc \in {"summarize", "analyze", "returned"}
    /\ (e_pc = "returned" /\ e_failures.final) =>
            /\ Len(final_topics) = num_topics
            /\ \A k \in 1..num_topics :
                   final_topics[k] = [title |-> <<"T", "o", "p", "i", "c", " ">> \o IntToStr(k),
                                      content |-> <<>>]

\* C3: a run in which a summary call, a batch call and the consolidation call failed
C3_Witness ==
    /\ e_pc = "returned"
    /\ e_failures.summary > 0
    /\ e_failures.batch > 0
    /\ e_failures.final
    /\ num_topics = 2

\* the positions of the non-blank chunks among the first n chunks, in chunk order
RECURSIVE NonBlankChunks(_)
NonBlankChunks(n) ==
    IF n = 0 THEN <<>>
    ELSE IF \A c \in 1..Len(text_chunks[n]) : isspace(text_chunks[n][c])
    THEN NonBlankChunks(n - 1)
    ELSE Append(NonBlankChunks(n - 1), n)

\* the chunks the summarization loop has passed
ChunksSummarized ==
    IF e_pc = "summarize" THEN e_i ELSE Len(text_chunks)

\* C39: the summarization yields exactly one summary per non-blank chunk, in chunk
\* order; a failed summary call leaves the placeholder 'Content from section i', i the
\* position of the chunk, in that chunk's place, and the chunks after it are still
\* summarized.
C39_OneSummaryPerChunk ==
    e_pc \in {"summarize", "analyze"} =>
        /\ Len(chunk_summaries) = Len(NonBlankChunks(ChunksSummarized))
        /\ \A j \in 1..Len(chunk_summaries) :
              \/ chunk_summaries[j] \in SummaryReplies
              \/ chunk_summaries[j] =
                    <<"C", "o", "n", "t", "e", "n", "t", " ", "f", "r", "o", "m", " ", "s", "e", "c", "t", "i", "o", "n", " ">>
                    \o IntToStr(NonBlankChunks(ChunksSummarized)[j])
        /\ Cardinality({j \in 1..Len(chunk_summaries) :
                            chunk_summaries[j] \notin SummaryReplies})
              = e_failures.summary

\* C39: the summary call of the first chunk failed, a blank chunk was skipped and
\* the third chunk was summarized
C39_Witness ==
    /\ e_pc = "analyze"
    /\ text_chunks = <<Para, Blank, Para>>
    /\ chunk_summaries = <<<<"C", "o", "n", "t", "e", "n", "t", " ", "f", "r", "o", "m", " ", "s", "e", "c", "t", "i", "o", "n", " ", "1">>, <<"s">>>>

\* C30: every topic the extractor returns has a non-empty title, whatever the
\* consolidation reply was, a numbered or bulleted line with nothing before its first
\* colon included.
C30_NonEmptyTitles ==
    e_pc = "returned" =>
        \A k \in 1..Len(final_topics) : final_topics[k].title # <<>>

----------------------------------------------------------------------------
(* Question generation: TextPreprocessor._generate_questions *)

QuestionMark == <<"?">>

QuestionPrefixes == { <<"q", "u", "e", "s", "t", "i", "o", "n">>, <<"q">> }

GuidePrefixes ==
    { <<"g", "u", "i", "d", "e", ":">>,
      <<"a", "n", "s", "w", "e", "r", ":">>,
      <<"g", "o", "o", "d", " ", "a", "n", "s", "w", "e", "r", ":">> }

\* a variant that does not put the question mark back
BlockQuestion_Bare(block) == strip(split1(block, QuestionMark)[1])

\* the question of a block: the text up to the first '?', without its prefix
BlockQuestion(block) ==
    LET question == strip(split1(block, QuestionMark)[1]) \o QuestionMark
    IN  IF /\ contains(question, <<":">>)
           /\ lower(strip(split1(question, <<":">>)[1])) \in QuestionPrefixes
        THEN strip(split1(question, <<":">>)[2])
        ELSE IF isdigit(question[1]) /\ contains(question, <<".", " ">>)
        THEN strip(split1(question, <<".", " ">>)[2])
        ELSE question

\* the answer guide of a block: the text after the first '?', without its prefix
BlockGuide(block) ==
    LET guide == strip(split1(block, QuestionMark)[2])
    IN  IF \E p \in GuidePrefixes : startswith(lower(guide), p)
        THEN strip(split1(guide, <<":">>)[2])
        ELSE guide

QuestionRecord(block, i, title) ==
    [topic_id |-> i, topic_title |-> title,
     question |-> BlockQuestion(block), answer_guide |-> BlockGuide(block)]

\* the check that ends the parse of a reply, made after each appended question
ParseStops(qs, total) == Len(qs) >= total

\* the loop over the blocks of one reply: qs is the list of all questions so far
RECURSIVE ParseBlocks(_, _, _, _, _)
ParseBlocks(blocks, qs, i, title, total) ==
    IF blocks = <<>> THEN qs
    ELSE IF contains(Head(blocks), QuestionMark)
    THEN LET qs1 == Append(qs, QuestionRecord(Head(blocks), i, title))
         IN  IF ParseStops(qs1, total) THEN qs1
             ELSE ParseBlocks(Tail(blocks), qs1, i, title, total)
    ELSE ParseBlocks(Tail(blocks), qs, i, title, total)

\* questions after the reply for topic i (0-based) has been parsed
ParseQuestions(questions_text, qs, i, title, total) ==
    ParseBlocks(split(questions_text, <<NL, NL>>), qs, i, title, total)

\* topic_question_count: the quota of the topic at hand
TopicQuestionCount(per_topic, remaining) ==
    IF remaining > 0 THEN per_topic + 1 ELSE per_topic

\* a variant that never counts the remainder down
RemainingAfter_Kept(remaining) == remaining

\* remaining_questions after the topic at hand
RemainingAfter(remaining) == IF remaining > 0 THEN remaining - 1 ELSE remaining

\* max(1, num_questions // len(topics))
QuestionsPerTopic(total, topic_count) == Max(1, total \div topic_count)

\* blocks a reply of the question call is made of
QuestionBlocks ==
    { <<"Q", "u", "e", "s", "t", "i", "o", "n", ":", " ", "a", "?", NL,
        "G", "u", "i", "d", "e", ":", " ", "g">>,
      <<"1", ".", " ", "b", "?", " ", "h">>,
      <<"I", "n", "t", "r", "o">> }

QuestionReplies == {join(<<NL, NL>>, bs) : bs \in SeqUpTo(QuestionBlocks, MaxBlocks)}

\* the topics the generator is called with
TopicList(n) == [k \in 1..n |-> [title |-> TopicK(k), content |-> <<"c">>]]

GenIdle ==
    /\ g_pc = "idle"
    /\ topics = <<>>
    /\ num_questions = 0
    /\ g_i = 0
    /\ questions_per_topic = 0
    /\ remaining_questions = 0
    /\ topic_question_count = <<>>
    /\ questions = <<>>
    /\ g_failed = {}
    /\ g_raised = FALSE

GenInit ==
    /\ g_pc = "called"
    /\ \E n \in 0..MaxTopicCount : topics = TopicList(n)
    /\ num_questions \in 0..MaxNumQuestions
    /\ g_i = 0
    /\ questions_per_topic = 0
    /\ remaining_questions = 0
    /\ topic_question_count = <<>>
    /\ questions = <<>>
    /\ g_failed = {}
    /\ g_raised = FALSE

\* the quota arithmetic before the loop; dividing by no topics raises ZeroDivisionError
PlanQuotas ==
    /\ g_pc = "called"
    /\ IF Len(topics) = 0
       THEN /\ g_pc' = "raised"
            /\ g_raised' = TRUE
            /\ UNCHANGED <<questions_per_topic, remaining_questions>>
       ELSE /\ g_pc' = "loop"
            /\ questions_per_topic' = QuestionsPerTopic(num_questions, Len(topics))
            /\ remaining_questions' =
                   num_questions - QuestionsPerTopic(num_questions, Len(topics)) * Len(topics)
            /\ UNCHANGED g_raised
    /\ UNCHANGED <<topics, num_questions, g_i, topic_question_count, questions, g_failed>>
    /\ UNCHANGED notGenVars

\* a variant in which a failed call leaves the function as an exception
GenerateForTopic_Propagates ==
    /\ g_pc = "loop"
    /\ g_i < Len(topics)
    /\ g_i' = g_i + 1
    /\ topic_question_count' =
           Append(topic_question_count,
                  TopicQuestionCount(questions_per_topic, remaining_questions))
    /\ remaining_questions' = RemainingAfter(remaining_questions)
    /\ \/ /\ \E questions_text \in QuestionReplies :
               questions' = ParseQuestions(questions_text, questions, g_i,
                                           topics[g_i + 1].title, num_questions)
          /\ UNCHANGED <<g_failed, g_pc, g_raised>>
       \/ /\ g_failed' = g_failed \cup {g_i}
          /\ g_pc' = "raised"
          /\ g_raised' = TRUE
          /\ UNCHANGED questions
    /\ UNCHANGED <<topics, num_questions, questions_per_topic>>
    /\ UNCHANGED notGenVars

\* one iteration of the loop over the topics: the quota, the call, the parse
GenerateForTopic ==
    /\ g_pc = "loop"
    /\ g_i < Len(topics)
    /\ g_i' = g_i + 1
    /\ topic_question_count' =
           Append(topic_question_count,
                  TopicQuestionCount(questions_per_topic, remaining_questions))
    /\ remaining_questions' = RemainingAfter(remaining_questions)
    /\ \/ /\ \E questions_text \in QuestionReplies :
               questions' = ParseQuestions(questions_text, questions, g_i,
                                           topics[g_i + 1].title, num_questions)
          /\ UNCHANGED g_failed
       \/ /\ g_failed' = g_failed \cup {g_i}
          /\ UNCHANGED questions
    /\ UNCHANGED <<g_pc, topics, num_questions, questions_per_topic, g_raised>>
    /\ UNCHANGED notGenVars

\* return questions
GenReturn ==
    /\ g_pc = "loop"
    /\ g_i = Len(topics)
    /\ g_pc' = "returned"
    /\ UNCHANGED <<topics, num_questions, g_i, questions_per_topic, remaining_questions,
                   topic_question_count, questions, g_failed, g_raised>>
    /\ UNCHANGED notGenVars

GenNext == PlanQuotas \/ GenerateForTopic \/ GenReturn

RECURSIVE SumSeq(_)
SumSeq(xs) == IF xs = <<>> THEN 0 ELSE Head(xs) + SumSeq(Tail(xs))

\* the questions of the result that come from topic k (1-based)
QuestionsOfTopic(k) == {j \in 1..Len(questions) : questions[j].topic_id = k - 1}

\* C8: the per-topic quotas of a call add up to the total question count.
C8_QuotasSumToTotal ==
    g_pc = "returned" => SumSeq(topic_question_count) = num_questions

\* C9: the quotas never increase from one topic to the next, differ by at most 1, and
\* when there are at least as many questions as topics the one-extra quotas are as
\* many as the remainder of the division.
C9_QuotasBalanced ==
    /\ \A i, j \in 1..Len(topic_question_count) :
           i < j => /\ topic_question_count[i] >= topic_question_count[j]
                    /\ topic_question_count[i] - topic_question_count[j] <= 1
    /\ (g_pc = "returned" /\ num_questions >= Len(topics)) =>
           Cardinality({k \in 1..Len(topics) :
                           topic_question_count[k] = (num_questions \div Len(topics)) + 1})
               = num_questions % Len(topics)

\* C9: three topics and four questions: the first topic has the extra question
C9_Witness ==
    /\ g_pc = "returned"
    /\ Len(topics) = 3
    /\ num_questions = 4
    /\ topic_question_count = <<2, 1, 1>>

\* C10: no topic has more questions in the result than its quota.
C10_QuotaRespected ==
    \A k \in 1..Len(topic_question_count) :
        Cardinality(QuestionsOfTopic(k)) <= topic_question_count[k]

\* C11: the result never holds more questions than the total asked for.
C11_AtMostTotal ==
    g_pc = "returned" => Len(questions) <= num_questions

\* the quota of topic k (1-based) as the plan of a call with these arguments gives it
PlannedQuota(k) ==
    LET per_topic == IF num_questions \div Len(topics) > 1
                     THEN num_questions \div Len(topics) ELSE 1
    IN  IF k <= num_questions - per_topic * Len(topics) THEN per_topic + 1 ELSE per_topic

\* C12: a topic whose call failed has no question in the result and no exception
\* leaves the function; the step in which a call fails goes on to the next topic
\* without a second call and leaves the result as it was; every topic, before or
\* after a failure, is processed once with the quota the plan gives it.
C12_FailedTopicContributesNothing ==
    /\ [](/\ g_failed # {} => ~g_raised
          /\ \A k \in g_failed : QuestionsOfTopic(k + 1) = {}
          /\ g_pc \in {"loop", "returned"} =>
                 /\ Len(topic_question_count) = g_i
                 /\ \A k \in 1..g_i : topic_question_count[k] = PlannedQuota(k)
          /\ g_pc = "returned" => g_i = Len(topics))
    /\ [][g_failed' # g_failed =>
             /\ g_failed' = g_failed \cup {g_i}
             /\ g_i' = g_i + 1
             /\ questions' = questions
             /\ g_pc' = "loop"]_vars

\* C12: the call for the first of three topics failed; the second and the third
\* were processed after it and have questions in the result
C12_Witness ==
    /\ g_pc = "returned"
    /\ Len(topics) = 3
    /\ g_failed = {0}
    /\ QuestionsOfTopic(2) # {}
    /\ QuestionsOfTopic(3) # {}
    /\ topic_question_count = <<2, 1, 1>>

----------------------------------------------------------------------------
(* The persistence gate: main, preprocess_data, TextPreprocessor.preprocess *)

\* config.NUM_TOPICS, bound by the preprocessor when it is imported
NUM_TOPICS == 10

NoFile == [state |-> "absent", run |-> 0]

\* the file as open(path, "w") and a finished write leave it
Written(r) == [state |-> "complete", run |-> r]

\* the file as open(path, "w") and a failed write leave it
Truncated(r) == [state |-> "partial", run |-> r]

\* text files the data directory may hold: none, an empty one, two texts
DataFiles == {"none", "empty", "text1", "text2"}

PipeIdle ==
    /\ lock_file = FALSE
    /\ lock_run = 0
    /\ topic_files = [k \in 1..NUM_TOPICS |-> NoFile]
    /\ questions_file = NoFile
    /\ runs = 0
    /\ run_kind = "none"
    /\ args = [force_preprocessing |-> FALSE, skip_preprocessing |-> FALSE]
    /\ data_file = "none"
    /\ lock_at_start = FALSE
    /\ p_pc = "idle"
    /\ p_i = 0
    /\ p_calls = 0
    /\ p_ret = "none"
    /\ p_log = "none"
    /\ save_failed = {}

\* a fresh installation: nothing processed yet, no run started
PipeInit == PipeIdle

\* A run starts: the program is started with some arguments (main), or
\* preprocess_data is called directly, on whatever the data directory holds
StartRun ==
    /\ p_pc \in {"idle", "session", "exit", "crashed", "done"}
    /\ runs < MaxRuns
    /\ runs' = runs + 1
    /\ run_kind' \in {"main", "direct"}
    /\ args' \in [force_preprocessing : BOOLEAN, skip_preprocessing : BOOLEAN]
    /\ run_kind' = "direct" =>
           args' = [force_preprocessing |-> FALSE, skip_preprocessing |-> FALSE]
    /\ data_file' \in DataFiles
    /\ lock_at_start' = lock_file
    /\ p_pc' = IF run_kind' = "main" THEN "main_key" ELSE "pre_check"
    /\ p_i' = 0
    /\ p_calls' = 0
    /\ p_ret' = "none"
    /\ p_log' = "none"
    /\ UNCHANGED <<fileVars, save_failed>>
    /\ UNCHANGED notPipeVars

\* main, lines 79-91: without an API key the user is asked whether to go on
MainCheckKey ==
    /\ p_pc = "main_key"
    /\ \E has_key \in BOOLEAN, go_on \in BOOLEAN :
           p_pc' = IF has_key \/ go_on THEN "main_gate" ELSE "exit"
    /\ UNCHANGED <<fileVars, runs, run_kind, args, data_file, lock_at_start, p_i,
                   p_calls, p_ret, p_log, save_failed>>
    /\ UNCHANGED notPipeVars

\* main, lines 94-116: the branch on the marker and the force flag, find_text_file
MainGate ==
    /\ p_pc = "main_gate"
    /\ IF ~lock_file \/ args.force_preprocessing
       THEN IF data_file = "none"
            THEN p_pc' = "exit" /\ p_log' = "no text files"
            ELSE p_pc' = "pre_check" /\ p_log' = "preprocessing"
       ELSE /\ p_pc' = "session"
            /\ p_log' = IF args.skip_preprocessing THEN "skipping as requested"
                                                    ELSE "already completed"
    /\ UNCHANGED <<fileVars, runs, run_kind, args, data_file, lock_at_start, p_i,
                   p_calls, p_ret, save_failed>>
    /\ UNCHANGED notPipeVars

\* the return of preprocess with value ret and last log line why
PreprocessReturns(ret, why) ==
    /\ p_pc' = IF run_kind = "main" THEN "main_after" ELSE "done"
    /\ p_ret' = ret
    /\ p_log' = why

\* a variant that does not look at the marker
PreCheck_Ungated ==
    /\ p_pc = "pre_check"
    /\ p_pc' = "pre_exists"
    /\ UNCHANGED <<fileVars, runs, run_kind, args, data_file, lock_at_start, p_i,
                   p_calls, p_ret, p_log, save_failed>>
    /\ UNCHANGED notPipeVars

\* preprocess, lines 517-519: with the marker present nothing is done
PreCheck ==
    /\ p_pc = "pre_check"
    /\ IF lock_file
       THEN PreprocessReturns("False", "already done")
       ELSE p_pc' = "pre_exists" /\ UNCHANGED <<p_ret, p_log>>
    /\ UNCHANGED <<fileVars, runs, run_kind, args, data_file, lock_at_start, p_i,
                   p_calls, save_failed>>
    /\ UNCHANGED notPipeVars

\* preprocess, lines 521-531: the file must exist and hold text
PreRead ==
    /\ p_pc = "pre_exists"
    /\ IF data_file = "none" THEN PreprocessReturns("False", "file not found")
       ELSE IF data_file = "empty" THEN PreprocessReturns("False", "no text")
       ELSE p_pc' = "pre_extract" /\ UNCHANGED <<p_ret, p_log>>
    /\ UNCHANGED <<fileVars, runs, run_kind, args, data_file, lock_at_start, p_i,
                   p_calls, save_failed>>
    /\ UNCHANGED notPipeVars

\* preprocess, lines 533-540: chunks, then _extract_topics, which calls the
\* collaborator and returns NUM_TOPICS topics
PreExtract ==
    /\ p_pc = "pre_extract"
    /\ p_calls' = p_calls + 1
    /\ IF NUM_TOPICS = 0 THEN PreprocessReturns("False", "no topics")
       ELSE p_pc' = "pre_questions" /\ UNCHANGED <<p_ret, p_log>>
    /\ UNCHANGED <<fileVars, runs, run_kind, args, data_file, lock_at_start, p_i,
                   save_failed>>
    /\ UNCHANGED notPipeVars

\* a variant that sets the marker before it gives up for want of questions
PreQuestions_Marks ==
    /\ p_pc = "pre_questions"
    /\ p_calls' = p_calls + 1
    /\ \E any_question \in BOOLEAN :
           IF any_question
           THEN p_pc' = "save_topics" /\ UNCHANGED <<p_ret, p_log, lock_file, lock_run>>
           ELSE /\ PreprocessReturns("False", "no questions")
                /\ lock_file' = TRUE
                /\ lock_run' = runs
    /\ UNCHANGED <<topic_files, questions_file, runs, run_kind, args, data_file,
                   lock_at_start, p_i, save_failed>>
    /\ UNCHANGED notPipeVars

\* preprocess, lines 542-545: _generate_questions, which calls the collaborator
\* and may return no question at all
PreQuestions ==
    /\ p_pc = "pre_questions"
    /\ p_calls' = p_calls + 1
    /\ \E any_question \in BOOLEAN :
           IF any_question THEN p_pc' = "save_topics" /\ UNCHANGED <<p_ret, p_log>>
           ELSE PreprocessReturns("False", "no questions")
    /\ UNCHANGED <<fileVars, runs, run_kind, args, data_file, lock_at_start, p_i,
                   save_failed>>
    /\ UNCHANGED notPipeVars

\* an exception leaves preprocess, and main with it
PipeRaises(stage) ==
    /\ p_pc' = "crashed"
    /\ p_log' = stage
    /\ save_failed' = IF stage = "save" THEN save_failed \cup {runs} ELSE save_failed

\* a variant that swallows a failed write and goes on to the next file
SaveTopic_Swallow ==
    /\ p_pc = "save_topics"
    /\ p_i < NUM_TOPICS
    /\ p_i' = p_i + 1
    /\ \/ topic_files' = [topic_files EXCEPT ![p_i + 1] = Written(runs)]
       \/ topic_files' = [topic_files EXCEPT ![p_i + 1] = Truncated(runs)]
    /\ UNCHANGED <<lock_file, lock_run, questions_file, runs, run_kind, args, data_file,
                   lock_at_start, p_pc, p_calls, p_ret, p_log, save_failed>>
    /\ UNCHANGED notPipeVars

\* _save_processed_data, lines 495-498, one iteration: the file is written, or
\* opening it fails, or the write fails after the file was opened
SaveTopic ==
    /\ p_pc = "save_topics"
    /\ p_i < NUM_TOPICS
    /\ \/ /\ topic_files' = [topic_files EXCEPT ![p_i + 1] = Written(runs)]
          /\ p_i' = p_i + 1
          /\ UNCHANGED <<p_pc, p_log, save_failed>>
       \/ /\ UNCHANGED <<topic_files, p_i>>
          /\ PipeRaises("save")
       \/ /\ topic_files' = [topic_files EXCEPT ![p_i + 1] = Truncated(runs)]
          /\ UNCHANGED p_i
          /\ PipeRaises("save")
    /\ UNCHANGED <<lock_file, lock_run, questions_file, runs, run_kind, args, data_file,
                   lock_at_start, p_calls, p_ret>>
    /\ UNCHANGED notPipeVars

\* _save_processed_data, lines 500-505: the question collection
SaveQuestions ==
    /\ p_pc = "save_topics"
    /\ p_i = NUM_TOPICS
    /\ \/ /\ questions_file' = Written(runs)
          /\ p_pc' = "create_lock"
          /\ UNCHANGED <<p_log, save_failed>>
       \/ /\ UNCHANGED questions_file
          /\ PipeRaises("save")
       \/ /\ questions_file' = Truncated(runs)
          /\ PipeRaises("save")
    /\ UNCHANGED <<lock_file, lock_run, topic_files, runs, run_kind, args, data_file,
                   lock_at_start, p_i, p_calls, p_ret>>
    /\ UNCHANGED notPipeVars

\* _create_lock_file and return True, lines 550-553: the marker is its file's
\* existence, so a write that fails after the file was opened leaves a marker
CreateLock ==
    /\ p_pc = "create_lock"
    /\ \/ /\ lock_file' = TRUE
          /\ lock_run' = runs
          /\ PreprocessReturns("True", "created lock file")
          /\ UNCHANGED save_failed
       \/ /\ UNCHANGED <<lock_file, lock_run, p_ret>>
          /\ PipeRaises("lock")
       \/ /\ lock_file' = TRUE
          /\ lock_run' = runs
          /\ UNCHANGED p_ret
          /\ PipeRaises("lock")
    /\ UNCHANGED <<topic_files, questions_file, runs, run_kind, args, data_file,
                   lock_at_start, p_i, p_calls>>
    /\ UNCHANGED notPipeVars

\* main, lines 106-112: what main does with the value of preprocess_data
MainAfter ==
    /\ p_pc = "main_after"
    /\ IF p_ret = "True" THEN p_pc' = "session" /\ p_log' = "completed successfully"
       ELSE IF ~args.skip_preprocessing /\ ~lock_file
       THEN p_pc' = "exit" /\ p_log' = "failed or skipped, exiting"
       ELSE p_pc' = "session" /\ p_log' = "failed or skipped"
    /\ UNCHANGED <<fileVars, runs, run_kind, args, data_file, lock_at_start, p_i,
                   p_calls, p_ret, save_failed>>
    /\ UNCHANGED notPipeVars

PipeNext ==
    \/ StartRun \/ MainCheckKey \/ MainGate \/ PreCheck \/ PreRead \/ PreExtract
    \/ PreQuestions \/ SaveTopic \/ SaveQuestions \/ CreateLock \/ MainAfter

\* C5: a call of preprocess that finds the marker returns False at once, makes no
\* collaborator call and leaves the topic records, the question collection and the
\* marker as they were, in every run and whatever the text file holds.
C5_MarkerSkipsPipeline ==
    [][(p_pc = "pre_check" /\ lock_file) =>
           /\ UNCHANGED <<lock_file, lock_run, topic_files, questions_file>>
           /\ p_calls' = p_calls
           /\ p_ret' = "False"
           /\ p_pc' \in {"main_after", "done"}]_vars

\* C5: the third call in a row, on another text, has found the marker of the first
C5_Witness ==
    /\ runs = 3
    /\ lock_run = 1
    /\ p_log = "already done"
    /\ p_calls = 0
    /\ data_file = "text2"

\* C6: while the marker exists, every topic record and the question collection are
\* completely written, by the run that set the marker; a run that failed in save has
\* left no marker.
C6_MarkerOnlyAfterSave ==
    /\ lock_file =>
           /\ \A k \in 1..NUM_TOPICS : topic_files[k] = [state |-> "complete", run |-> lock_run]
           /\ questions_file = [state |-> "complete", run |-> lock_run]
    /\ (p_pc = "crashed" /\ p_log = "save") => ~lock_file

\* C6: the first run failed while saving, the second set the marker
C6_Witness ==
    /\ lock_file
    /\ lock_run = 2
    /\ 1 \in save_failed

\* C7: a run of main with the force flag that found the marker and a text file has
\* run the pipeline again by the time it ends.
C7_ForceRunsPipeline ==
    (/\ run_kind = "main"
     /\ p_pc \in {"session", "exit", "crashed"}
     /\ p_log # "none"
     /\ args.force_preprocessing
     /\ lock_at_start
     /\ data_file \in {"text1", "text2"})
        => p_calls > 0

\* why preprocess gives up: no file, no text, no topics, no questions
AbortReasons == {"file not found", "no text", "no topics", "no questions"}

\* C32: when preprocess stops because the text file is missing, the text is empty,
\* the extraction yields no topic or the generation yields no question, it returns
\* False and this run has written no topic record, no question collection and no
\* marker.
C32_AbortWritesNothing ==
    [][(p_pc \in {"pre_exists", "pre_extract", "pre_questions"}
        /\ p_pc' \in {"main_after", "done"}) =>
           /\ p_log' \in AbortReasons
           /\ p_ret' = "False"
           /\ UNCHANGED <<lock_file, lock_run, topic_files, questions_file>>
           /\ \A k \in 1..NUM_TOPICS : topic_files'[k].run # runs
           /\ questions_file'.run # runs
           /\ lock_run' # runs]_vars

\* C32: the second run gave up for want of questions, after its collaborator calls,
\* and the partial record of the first run is all there is
C32_Witness ==
    /\ runs = 2
    /\ p_ret = "False"
    /\ p_log = "no questions"
    /\ p_calls = 2
    /\ ~lock_file
    /\ topic_files[1] = Truncated(1)
    /\ questions_file = NoFile

----------------------------------------------------------------------------
(* The chunker: TextPreprocessor._split_text_into_chunks *)

\* the paragraph separator
ParagraphSep == <<NL, NL>>

\* pieces the input texts are put together from: empty, blank, plain, and with
\* white space at an edge
TextPieces ==
    { <<>>, <<" ">>, <<"a">>, <<"b", "b">>, <<" ", "c">>, <<NL, "d">> }

\* the input texts
Texts == {join(ParagraphSep, ps) : ps \in SeqUpTo(TextPieces, MaxParagraphs)}

ChunkIdle ==
    /\ c_pc = "idle"
    /\ c_text = <<>>
    /\ chunk_size = 0
    /\ paragraphs = <<>>
    /\ c_k = 0
    /\ current_chunk = <<>>
    /\ chunks = <<>>

ChunkInit ==
    /\ c_pc = "called"
    /\ c_text \in Texts
    /\ chunk_size \in 1..MaxChunkSize
    /\ paragraphs = <<>>
    /\ c_k = 0
    /\ current_chunk = <<>>
    /\ chunks = <<>>

\* paragraphs = text.split("\n\n")
SplitParagraphs ==
    /\ c_pc = "called"
    /\ c_pc' = "loop"
    /\ paragraphs' = split(c_text, ParagraphSep)
    /\ UNCHANGED <<c_text, chunk_size, c_k, current_chunk, chunks>>
    /\ UNCHANGED notChunkVars

\* a variant that starts the new buffer empty after a flush
TakeParagraph_Drops ==
    /\ c_pc = "loop"
    /\ c_k < Len(paragraphs)
    /\ c_k' = c_k + 1
    /\ LET paragraph == paragraphs[c_k + 1]
       IN  IF Len(current_chunk) + Len(paragraph) > chunk_size /\ current_chunk # <<>>
           THEN /\ chunks' = Append(chunks, strip(current_chunk))
                /\ current_chunk' = <<>>
           ELSE /\ current_chunk' = IF current_chunk # <<>>
                                    THEN current_chunk \o ParagraphSep \o paragraph
                                    ELSE paragraph
                /\ UNCHANGED chunks
    /\ UNCHANGED <<c_pc, c_text, chunk_size, paragraphs>>
    /\ UNCHANGED notChunkVars

\* one iteration of the loop over the paragraphs: flush the buffer and start a new
\* one with the paragraph, or add the paragraph to the buffer
TakeParagraph ==
    /\ c_pc = "loop"
    /\ c_k < Len(paragraphs)
    /\ c_k' = c_k + 1
    /\ LET paragraph == paragraphs[c_k + 1]
       IN  IF Len(current_chunk) + Len(paragraph) > chunk_size /\ current_chunk # <<>>
           THEN /\ chunks' = Append(chunks, strip(current_chunk))
                /\ current_chunk' = paragraph
           ELSE /\ current_chunk' = IF current_chunk # <<>>
                                    THEN current_chunk \o ParagraphSep \o paragraph
                                    ELSE paragraph
                /\ UNCHANGED chunks
    /\ UNCHANGED <<c_pc, c_text, chunk_size, paragraphs>>
    /\ UNCHANGED notChunkVars

\* after the loop: the last buffer is added when it is not empty, and chunks returned
ChunksReturn ==
    /\ c_pc = "loop"
    /\ c_k = Len(paragraphs)
    /\ c_pc' = "returned"
    /\ chunks' = IF current_chunk # <<>> THEN Append(chunks, strip(current_chunk))
                 ELSE chunks
    /\ UNCHANGED <<c_text, chunk_size, paragraphs, c_k, current_chunk>>
    /\ UNCHANGED notChunkVars

ChunkNext == SplitParagraphs \/ TakeParagraph \/ ChunksReturn

\* the paragraphs of a list of chunks, in chunk order
RECURSIVE ParagraphsOf(_)
ParagraphsOf(cs) ==
    IF cs = <<>> THEN <<>>
    ELSE split(Head(cs), ParagraphSep) \o ParagraphsOf(Tail(cs))

\* the paragraphs that are not blank, each without the white space at its edges
RECURSIVE TrimmedNonBlank(_)
TrimmedNonBlank(ps) ==
    IF ps = <<>> THEN <<>>
    ELSE IF strip(Head(ps)) = <<>> THEN TrimmedNonBlank(Tail(ps))
    ELSE <<strip(Head(ps))>> \o TrimmedNonBlank(Tail(ps))

\* C13: a returned chunk is no longer than chunk_size (separators counted), unless
\* it is one single paragraph.
C13_ChunkWithinSize ==
    c_pc = "returned" =>
        \A k \in 1..Len(chunks) :
            \/ Len(chunks[k]) <= chunk_size
            \/ ~contains(chunks[k], ParagraphSep)

\* C14: no returned chunk is empty after trimming.
C14_NoEmptyChunk ==
    c_pc = "returned" => \A k \in 1..Len(chunks) : strip(chunks[k]) # <<>>

\* C15, as stated: the paragraphs of the returned chunks, in chunk order, are the
\* paragraphs of the input text.
C15_ParagraphsReproduced ==
    c_pc = "returned" => ParagraphsOf(chunks) = split(c_text, ParagraphSep)

\* C15, amended: the paragraphs of the returned chunks, in chunk order, are the
\* paragraphs of the input text up to white space: the non-blank paragraphs, each
\* without the white space at its edges, are the same sequence, so that no non-blank
\* paragraph is dropped, duplicated, reordered or divided between two chunks.
C15_ParagraphsReproducedModuloSpace ==
    c_pc = "returned" =>
        TrimmedNonBlank(ParagraphsOf(chunks)) =
            TrimmedNonBlank(split(c_text, ParagraphSep))

\* C15: the text " c", "a", "bb" with chunk_size 3 gives a chunk of two paragraphs,
\* trimmed at its left edge, and a second chunk
C15_Witness ==
    /\ c_pc = "returned"
    /\ chunk_size = 3
    /\ c_text = <<" ", "c", NL, NL, "a", NL, NL, "b", "b">>
    /\ chunks = << <<"c", NL, NL, "a">>, <<"b", "b">> >>

----------------------------------------------------------------------------
(* The session: VoiceTrainer *)

\* config.QUESTIONS_PER_TOPIC, the default of _generate_questions_for_topic
QUESTIONS_PER_TOPIC == 5

\* the most follow-ups the follow-up parser returns
MaxFollowUps == 3

LiveQuestionPrefixes ==
    { <<"q", "u", "e", "s", "t", "i", "o", "n">>, <<"q">>,
      <<"f", "r", "a", "g", "e">>, <<"f">> }

LiveGuidePrefixes ==
    { <<"g", "u", "i", "d", "e", ":">>,
      <<"a", "n", "s", "w", "e", "r", ":">>,
      <<"g", "o", "o", "d", " ", "a", "n", "s", "w", "e", "r", ":">>,
      <<"a", "n", "t", "w", "o", "r", "t", ":">>,
      <<"g", "u", "t", "e", " ", "a", "n", "t", "w", "o", "r", "t", ":">>,
      <<"a", "n", "l", "e", "i", "t", "u", "n", "g", ":">> }

LiveBlockQuestion(block) ==
    LET question == strip(split1(block, QuestionMark)[1]) \o QuestionMark
    IN  IF /\ contains(question, <<":">>)
           /\ lower(strip(split1(question, <<":">>)[1])) \in LiveQuestionPrefixes
        THEN strip(split1(question, <<":">>)[2])
        ELSE IF isdigit(question[1]) /\ contains(question, <<".", " ">>)
        THEN strip(split1(question, <<".", " ">>)[2])
        ELSE question

LiveBlockGuide(block) ==
    LET guide == strip(split1(block, QuestionMark)[2])
    IN  IF \E p \in LiveGuidePrefixes : startswith(lower(guide), p)
        THEN strip(split1(guide, <<":">>)[2])
        ELSE guide

RECURSIVE LiveParseBlocks(_, _, _, _)
LiveParseBlocks(blocks, qs, title, n) ==
    IF blocks = <<>> THEN qs
    ELSE IF contains(Head(blocks), QuestionMark)
    THEN LET qs1 == Append(qs, [topic_title |-> title,
                                question |-> LiveBlockQuestion(Head(blocks)),
                                answer_guide |-> LiveBlockGuide(Head(blocks))])
         IN  IF Len(qs1) >= n THEN qs1
             ELSE LiveParseBlocks(Tail(blocks), qs1, title, n)
    ELSE LiveParseBlocks(Tail(blocks), qs, title, n)

\* _generate_questions_for_topic on a reply: at most n questions
LiveParseQuestions(questions_text, title, n) ==
    LET qs == LiveParseBlocks(split(questions_text, <<NL, NL>>), <<>>, title, n)
    IN  SubSeq(qs, 1, Min(n, Len(qs)))

\* the headers of the follow-up section, in the order they are tried
FollowUpHeaders ==
    << <<"n", "a", "c", "h", "f", "r", "a", "g", "e", "n", ":">>,
       <<"f", "o", "l", "l", "o", "w", "-", "u", "p", " ",
         "q", "u", "e", "s", "t", "i", "o", "n", "s", ":">>,
       <<"f", "o", "l", "l", "o", "w", " ", "u", "p", " ",
         "q", "u", "e", "s", "t", "i", "o", "n", "s", ":">> >>

\* a variant that returns the reply in lower case and trimmed when no header is found
SplitEvaluation_Lowered(full_response) ==
    LET low == lower(full_response)
        found == {h \in 1..Len(FollowUpHeaders) : contains(low, FollowUpHeaders[h])}
    IN  IF found = {}
        THEN [feedback |-> strip(low), follow_up_questions |-> <<>>]
        ELSE LET h == CHOOSE x \in found : \A y \in found : x <= y
                 split_text == split1(low, FollowUpHeaders[h])
             IN  [feedback |-> strip(split_text[1]),
                  follow_up_questions |-> strip(split_text[2])]

\* _evaluate_answer on a reply: the reply is split, in lower case, at the first
\* header found
SplitEvaluation(full_response) ==
    LET low == lower(full_response)
        found == {h \in 1..Len(FollowUpHeaders) : contains(low, FollowUpHeaders[h])}
    IN  IF found = {}
        THEN [feedback |-> full_response, follow_up_questions |-> <<>>]
        ELSE LET h == CHOOSE x \in found : \A y \in found : x <= y
                 split_text == split1(low, FollowUpHeaders[h])
             IN  [feedback |-> strip(split_text[1]),
                  follow_up_questions |-> strip(split_text[2])]

\* a variant of the consolation that asks a follow-up
EvaluationFailed_WithFollowUp ==
    [feedback |-> <<"?">>, follow_up_questions |-> <<"1", ".", " ", "W", "h", "y", "?">>]

\* the consolation of a failed evaluation (LANGUAGE is "de")
EvaluationFailed ==
    [feedback |->
        <<"I", "c", "h", " ", "k", "o", "n", "n", "t", "e", " ", "d", "e", "i", "n", "e",
          " ", "A", "n", "t", "w", "o", "r", "t", " ", "n", "i", "c", "h", "t", " ", "r",
          "i", "c", "h", "t", "i", "g", " ", "b", "e", "w", "e", "r", "t", "e", "n", ".",
          " ", "L", "a", "s", "s", " ", "u", "n", "s", " ", "z", "u", "r", " ", "n", "ä",
          "c", "h", "s", "t", "e", "n", " ", "F", "r", "a", "g", "e", " ", "ü", "b", "e",
          "r", "g", "e", "h", "e", "n", ".">>,
     follow_up_questions |-> <<>>]

\* a variant that knows numbered questions only
StartsFollowUp_DigitOnly(line) ==
    /\ line # <<>>
    /\ isdigit(line[1])
    /\ contains(SubSeq(line, 1, Min(5, Len(line))), <<".", " ">>)

\* whether a trimmed line starts a follow-up question
StartsFollowUp(line) ==
    \/ /\ line # <<>>
       /\ isdigit(line[1])
       /\ contains(SubSeq(line, 1, Min(5, Len(line))), <<".", " ">>)
    \/ startswith(line, <<"-", " ">>)
    \/ startswith(line, <<"*", " ">>)

\* the loop over the lines; st = [current, out]
RECURSIVE FollowUpLines(_, _)
FollowUpLines(st, lines) ==
    IF lines = <<>> THEN st
    ELSE LET line == strip(Head(lines))
             st1 == IF StartsFollowUp(line)
                    THEN [current |-> line,
                          out |-> IF st.current # <<>> THEN Append(st.out, st.current)
                                  ELSE st.out]
                    ELSE IF st.current # <<>> /\ line # <<>>
                    THEN [st EXCEPT !.current = st.current \o <<" ">> \o line]
                    ELSE st
         IN  FollowUpLines(st1, Tail(lines))

\* a variant without the fallback to the whole text
HandleFollowUpQuestions_NoFallback(follow_up_text) ==
    LET st == FollowUpLines([current |-> <<>>, out |-> <<>>], split(follow_up_text, <<NL>>))
        qs == IF st.current # <<>> THEN Append(st.out, st.current) ELSE st.out
    IN  SubSeq(qs, 1, Min(MaxFollowUps, Len(qs)))

\* _handle_follow_up_questions
HandleFollowUpQuestions(follow_up_text) ==
    LET st == FollowUpLines([current |-> <<>>, out |-> <<>>], split(follow_up_text, <<NL>>))
        qs == IF st.current # <<>> THEN Append(st.out, st.current) ELSE st.out
        all == IF qs = <<>> /\ strip(follow_up_text) # <<>>
               THEN <<strip(follow_up_text)>> ELSE qs
    IN  SubSeq(all, 1, Min(MaxFollowUps, Len(all)))

\* the words that end the session, as run_interactive_session lists them
exit_commands ==
    { <<"e", "x", "i", "t">>,
      <<"q", "u", "i", "t">>,
      <<"b", "e", "e", "n", "d", "e", "n">>,
      <<"e", "n", "d", "e">>,
      <<"s", "t", "o", "p">>,
      <<"s", "c", "h", "l", "i", "e", "ß", "e", "n">> }

\* the words that leave the topic at the follow-up decision
next_topic_keywords ==
    { <<"n", "ä", "c", "h", "s", "t", "e", "s">>,
      <<"n", "e", "x", "t">>,
      <<"j", "a">>,
      <<"y", "e", "s">>,
      <<"y">>,
      <<"j">> }

\* the words that continue the session at the end of a topic
yes_responses ==
    { <<"j", "a">>,
      <<"j">>,
      <<"y", "e", "s">>,
      <<"y">> }

\* any(keyword in text.lower() for keyword in keywords)
AnyIn(keywords, text) == \E k \in keywords : contains(lower(text), k)

\* what the user types or says: exit words in several letter cases, words of the
\* two decisions, and other text
UserInputs ==
    { <<"e", "x", "i", "t">>,
      <<"Q", "u", "i", "t">>,
      <<"B", "E", "E", "N", "D", "E", "N">>,
      <<"E", "n", "d", "e">>,
      <<"s", "t", "o", "p">>,
      <<"s", "c", "h", "l", "i", "e", "ß", "e", "n">>,
      <<"x">>,
      <<"y", "e", "s">>,
      <<"n", "o">>,
      <<"n", "e", "x", "t">>,
      <<"w", "e", "i", "t", "e", "r">>,
      <<"J", "a">>,
      <<"o", "k", "a", "y">>,
      <<>> }

IntroReplies ==
    { <<"H", "e", "l", "l", "o", ".">> }

LiveQuestionReplies ==
    { <<"F", "r", "a", "g", "e", ":", " ", "a", "?", "\n", "A", "n", "t", "w", "o", "r",
        "t", ":", " ", "g">>,
      <<"1", ".", " ", "b", "?", " ", "h", "\n", "\n", "2", ".", " ", "c", "?", " ", "k">>,
      <<"I", "n", "t", "r", "o">>,
      <<"1", ".", " ", "a", "?", " ", "g", "\n", "\n", "2", ".", " ", "b", "?", " ", "g",
        "\n", "\n", "3", ".", " ", "c", "?", " ", "g", "\n", "\n", "4", ".", " ", "d",
        "?", " ", "g", "\n", "\n", "5", ".", " ", "e", "?", " ", "g", "\n", "\n", "6",
        ".", " ", "f", "?", " ", "g">> }

EvaluationReplies ==
    { <<"G", "o", "o", "d", ".">>,
      <<"O", "k", ".", "\n", "F", "o", "l", "l", "o", "w", "-", "u", "p", " ", "q", "u",
        "e", "s", "t", "i", "o", "n", "s", ":", "\n", "1", ".", " ", "W", "h", "y", "?",
        "\n", "2", ".", " ", "H", "o", "w", "?">>,
      <<"O", "k", ".", "\n", "N", "a", "c", "h", "f", "r", "a", "g", "e", "n", ":", "\n",
        "-", " ", "a", "?", "\n", "-", " ", "b", "?", "\n", "-", " ", "c", "?", "\n",
        "-", " ", "d", "?">> }

\* a variant that draws from 3..5
FollowUpThresholds_Wide == 3..5

\* random.randint(3, 4)
FollowUpThresholds == 3..4

NoInput == <<>>

\* the step took no reply from the collaborator
NoReply == <<"none">>

\* a collaborator call that raises instead of returning a reply
CallFails == <<"raise">>

Out(kind, n, text) == [kind |-> kind, n |-> n, text |-> text]

Goodbye == Out("goodbye", 0, <<>>)

\* the introduction shown when the collaborator fails
FallbackIntro(title) ==
    <<"L", "a", "s", "s", " ", "u", "n", "s", " ", "ü", "b", "e", "r", " ", "d", "a",
      "s", " ", "T", "h", "e", "m", "a", " ", "'">> \o title \o <<"'", " ", "s", "p", "r", "e", "c", "h", "e", "n", ".">>

TopicHeader(title) ==
    <<"\n", "\n", "N", "e", "u", "e", "s", " ", "T", "h", "e", "m", "a", ":", " ">> \o title \o <<NL>>

\* every order random.shuffle can leave the loaded topics in
Shuffles(S) ==
    {o \in [1..Cardinality(S) -> S] : \A a, b \in 1..Cardinality(S) : a # b => o[a] # o[b]}

\* a variant of _load_topics without the try around the load
LoadTopics_Unguarded(files) == {k \in DOMAIN files : files[k] # "absent"}

\* _load_topics: the topic files that exist and load as JSON; a file that does not
\* load is logged and left out
LoadTopics(files) == {k \in DOMAIN files : files[k] = "good"}

SessionIdle ==
    /\ s_pc = "idle"
    /\ s_from = "idle"
    /\ s_stored = <<>>
    /\ s_topics = <<>>
    /\ s_t = 0
    /\ s_questions = <<>>
    /\ question_counter = 0
    /\ follow_up_questions = <<>>
    /\ s_f = 0
    /\ follow_up_counter = 0
    /\ s_in = NoInput
    /\ s_out = <<>>
    /\ s_reply = NoReply

\* a session about to start over a processed-data directory in which each topic
\* file is absent, present but not loadable, or present and good
SessionInit ==
    /\ s_pc = "start"
    /\ s_from = "idle"
    /\ s_stored \in [1..MaxSessionTopics -> {"absent", "corrupt", "good"}]
    /\ s_topics = <<>>
    /\ s_t = 0
    /\ s_questions = <<>>
    /\ question_counter = 0
    /\ follow_up_questions = <<>>
    /\ s_f = 0
    /\ follow_up_counter = 0
    /\ s_in = NoInput
    /\ s_out = <<>>
    /\ s_reply = NoReply

\* the return after the goodbye message
SayGoodbye ==
    /\ s_pc' = "done"
    /\ s_out' = <<Goodbye>>
    /\ UNCHANGED <<s_t, question_counter, follow_up_questions, s_f, follow_up_counter>>

\* a variant that says goodbye after the completion message
AdvanceTopic_AlsoGoodbye(out) ==
    IF s_t < Len(s_topics)
    THEN /\ s_t' = s_t + 1
         /\ s_pc' = "call_intro"
         /\ s_out' = out
    ELSE /\ s_t' = s_t
         /\ s_pc' = "done"
         /\ s_out' = out \o <<Out("completion", 0, <<>>), Goodbye>>

\* the for loop over the topics moves on, or ends with the completion message
AdvanceTopic(out) ==
    IF s_t < Len(s_topics)
    THEN /\ s_t' = s_t + 1
         /\ s_pc' = "call_intro"
         /\ s_out' = out
    ELSE /\ s_t' = s_t
         /\ s_pc' = "done"
         /\ s_out' = Append(out, Out("completion", 0, <<>>))

\* a variant that shows the question after the one the counter points at
AskOrEndTopic_Skips(qs, qc, out) ==
    /\ question_counter' = qc
    /\ IF qc < Len(qs)
       THEN /\ s_pc' = "await_answer"
            /\ s_out' = out \o <<Out("question", qc + 1, qs[Min(qc + 2, Len(qs))].question),
                                Out("prompt_answer", 0, <<>>)>>
       ELSE /\ s_pc' = "await_topic_decision"
            /\ s_out' = Append(out, Out("prompt_continue", 0, <<>>))

\* the while test with question_counter = qc: the next question, or the prompt at
\* the end of the topic
AskOrEndTopic(qs, qc, out) ==
    /\ question_counter' = qc
    /\ IF qc < Len(qs)
       THEN /\ s_pc' = "await_answer"
            /\ s_out' = out \o <<Out("question", qc + 1, qs[qc + 1].question),
                                Out("prompt_answer", 0, <<>>)>>
       ELSE /\ s_pc' = "await_topic_decision"
            /\ s_out' = Append(out, Out("prompt_continue", 0, <<>>))

\* a variant that starts the queue of follow-ups again when it is used up
NextFollowUp_Again(fus, f, fc, out) ==
    IF fus # <<>>
    THEN /\ s_f' = IF f < Len(fus) THEN f + 1 ELSE 1
         /\ follow_up_counter' = fc + 1
         /\ s_pc' = "await_followup"
         /\ s_out' = out \o <<Out("follow_up", 0, fus[IF f < Len(fus) THEN f + 1 ELSE 1]),
                             Out("prompt_answer", 0, <<>>)>>
         /\ UNCHANGED question_counter
    ELSE /\ s_f' = f
         /\ follow_up_counter' = fc
         /\ AskOrEndTopic(s_questions, question_counter + 1, out)

\* a variant whose counter stops at 3
NextFollowUp_Saturates(fus, f, fc, out) ==
    IF f < Len(fus)
    THEN /\ s_f' = f + 1
         /\ follow_up_counter' = Min(fc + 1, 3)
         /\ s_pc' = "await_followup"
         /\ s_out' = out \o <<Out("follow_up", 0, fus[f + 1]),
                             Out("prompt_answer", 0, <<>>)>>
         /\ UNCHANGED question_counter
    ELSE /\ s_f' = f
         /\ follow_up_counter' = fc
         /\ AskOrEndTopic(s_questions, question_counter + 1, out)

\* the for loop over the follow-ups after item f, with the counter at fc
NextFollowUp(fus, f, fc, out) ==
    IF f < Len(fus)
    THEN /\ s_f' = f + 1
         /\ follow_up_counter' = fc + 1
         /\ s_pc' = "await_followup"
         /\ s_out' = out \o <<Out("follow_up", 0, fus[f + 1]),
                             Out("prompt_answer", 0, <<>>)>>
         /\ UNCHANGED question_counter
    ELSE /\ s_f' = f
         /\ follow_up_counter' = fc
         /\ AskOrEndTopic(s_questions, question_counter + 1, out)

\* _load_topics, the shuffle and the welcome
SessionStart ==
    /\ s_pc = "start"
    /\ s_from' = s_pc
    /\ s_in' = NoInput
    /\ s_reply' = NoReply
    /\ IF LoadTopics(s_stored) = {}
       THEN /\ s_pc' = "done"
            /\ s_out' = <<Out("no_topics", 0, <<>>)>>
            /\ UNCHANGED <<s_topics, s_t>>
       ELSE /\ s_topics' \in Shuffles(LoadTopics(s_stored))
            /\ s_t' = 1
            /\ s_pc' = "call_intro"
            /\ s_out' = <<Out("welcome", 0, <<>>)>>
    /\ UNCHANGED <<s_stored, s_questions, question_counter, follow_up_questions, s_f,
                   follow_up_counter>>
    /\ UNCHANGED notSessVars

\* _generate_topic_introduction returns: the reply, or the fallback on a failure
IntroReturns ==
    /\ s_pc = "call_intro"
    /\ s_from' = s_pc
    /\ s_in' = NoInput
    /\ \E reply \in IntroReplies \cup {CallFails} :
         /\ s_reply' = reply
         /\ LET title == TopicK(s_topics[s_t])
                intro == IF reply = CallFails THEN FallbackIntro(title) ELSE reply
            IN  s_out' = <<Out("topic", 0, TopicHeader(title) \o intro)>>
    /\ s_pc' = "call_gen"
    /\ UNCHANGED <<s_stored, s_topics, s_t, s_questions, question_counter,
                   follow_up_questions, s_f, follow_up_counter>>
    /\ UNCHANGED notSessVars

\* a variant that asks the end-of-topic decision for a topic without questions
QuestionsReturn_AsksContinue ==
    /\ s_pc = "call_gen"
    /\ s_from' = s_pc
    /\ s_in' = NoInput
    /\ \E reply \in LiveQuestionReplies \cup {CallFails} :
         /\ s_reply' = reply
         /\ LET title == TopicK(s_topics[s_t])
                qs == IF reply = CallFails THEN <<>>
                      ELSE LiveParseQuestions(reply, title, QUESTIONS_PER_TOPIC)
            IN  /\ s_questions' = qs
                /\ follow_up_counter' = 0
                /\ AskOrEndTopic(qs, 0, IF qs = <<>> THEN <<Out("skip", 0, title)>> ELSE <<>>)
                /\ UNCHANGED s_t
    /\ UNCHANGED <<s_stored, s_topics, follow_up_questions, s_f>>
    /\ UNCHANGED notSessVars

\* _generate_questions_for_topic returns: no questions skips the topic, otherwise
\* both counters start at zero and the first question is asked
QuestionsReturn ==
    /\ s_pc = "call_gen"
    /\ s_from' = s_pc
    /\ s_in' = NoInput
    /\ \E reply \in LiveQuestionReplies \cup {CallFails} :
         /\ s_reply' = reply
         /\ LET title == TopicK(s_topics[s_t])
                qs == IF reply = CallFails THEN <<>>
                      ELSE LiveParseQuestions(reply, title, QUESTIONS_PER_TOPIC)
            IN  IF qs = <<>>
                THEN /\ AdvanceTopic(<<Out("skip", 0, title)>>)
                     /\ UNCHANGED <<s_questions, question_counter, follow_up_counter>>
                ELSE /\ s_questions' = qs
                     /\ follow_up_counter' = 0
                     /\ AskOrEndTopic(qs, 0, <<>>)
                     /\ UNCHANGED s_t
    /\ UNCHANGED <<s_stored, s_topics, follow_up_questions, s_f>>
    /\ UNCHANGED notSessVars

\* a variant that goes on to the next question without the evaluation
Answer_SkipsEvaluation(user_answer) ==
    /\ s_pc = "await_answer"
    /\ s_from' = s_pc
    /\ s_in' = user_answer
    /\ s_reply' = NoReply
    /\ IF lower(user_answer) \in exit_commands
       THEN SayGoodbye
       ELSE /\ AskOrEndTopic(s_questions, question_counter + 1, <<>>)
            /\ UNCHANGED <<s_t, follow_up_questions, s_f, follow_up_counter>>
    /\ UNCHANGED <<s_stored, s_topics, s_questions>>
    /\ UNCHANGED notSessVars

\* the answer to a main question arrives
Answer(user_answer) ==
    /\ s_pc = "await_answer"
    /\ s_from' = s_pc
    /\ s_in' = user_answer
    /\ s_reply' = NoReply
    /\ IF lower(user_answer) \in exit_commands
       THEN SayGoodbye
       ELSE /\ s_pc' = "call_eval"
            /\ s_out' = <<>>
            /\ UNCHANGED <<s_t, question_counter, follow_up_questions, s_f,
                           follow_up_counter>>
    /\ UNCHANGED <<s_stored, s_topics, s_questions>>
    /\ UNCHANGED notSessVars

\* _evaluate_answer returns: the feedback is shown, then the first follow-up, or
\* the next question when there is none
EvaluationReturns ==
    /\ s_pc = "call_eval"
    /\ s_from' = s_pc
    /\ s_in' = NoInput
    /\ \E reply \in EvaluationReplies \cup {CallFails} :
         /\ s_reply' = reply
         /\ LET evaluation == IF reply = CallFails THEN EvaluationFailed
                              ELSE SplitEvaluation(reply)
                fus == HandleFollowUpQuestions(evaluation.follow_up_questions)
            IN  /\ follow_up_questions' = fus
                /\ NextFollowUp(fus, 0, follow_up_counter,
                                <<Out("feedback", 0, evaluation.feedback)>>)
    /\ UNCHANGED <<s_stored, s_topics, s_t, s_questions>>
    /\ UNCHANGED notSessVars

\* the same, without the exit check on the answer to a follow-up
FollowUpAnswer_NoExitCheck(follow_up_answer) ==
    /\ s_pc = "await_followup"
    /\ s_from' = s_pc
    /\ s_in' = follow_up_answer
    /\ s_reply' = NoReply
    /\ \E threshold \in FollowUpThresholds :
         IF follow_up_counter >= threshold
         THEN /\ s_pc' = "await_fu_decision"
              /\ s_out' = <<Out("thanks", 0, <<>>), Out("prompt_next_or_continue", 0, <<>>)>>
              /\ UNCHANGED <<question_counter, s_f, follow_up_counter>>
         ELSE NextFollowUp(follow_up_questions, s_f, follow_up_counter,
                           <<Out("thanks", 0, <<>>)>>)
    /\ UNCHANGED <<s_stored, s_topics, s_t, s_questions, follow_up_questions>>
    /\ UNCHANGED notSessVars

\* the answer to a follow-up arrives: thanks, then the decision prompt once the
\* counter has reached the threshold drawn for this check
FollowUpAnswer(follow_up_answer) ==
    /\ s_pc = "await_followup"
    /\ s_from' = s_pc
    /\ s_in' = follow_up_answer
    /\ s_reply' = NoReply
    /\ IF lower(follow_up_answer) \in exit_commands
       THEN SayGoodbye
       ELSE \E threshold \in FollowUpThresholds :
              IF follow_up_counter >= threshold
              THEN /\ s_pc' = "await_fu_decision"
                   /\ s_out' = <<Out("thanks", 0, <<>>),
                                 Out("prompt_next_or_continue", 0, <<>>)>>
                   /\ UNCHANGED <<s_t, question_counter, follow_up_questions, s_f,
                                  follow_up_counter>>
              ELSE /\ NextFollowUp(follow_up_questions, s_f, follow_up_counter,
                                   <<Out("thanks", 0, <<>>)>>)
                   /\ UNCHANGED <<s_t, follow_up_questions>>
    /\ UNCHANGED <<s_stored, s_topics, s_questions>>
    /\ UNCHANGED notSessVars

\* a variant in which the advance response only leaves the follow-up loop
FollowUpDecision_KeepsCursor(decision) ==
    /\ s_pc = "await_fu_decision"
    /\ s_from' = s_pc
    /\ s_in' = decision
    /\ s_reply' = NoReply
    /\ IF lower(decision) \in exit_commands
       THEN SayGoodbye
       ELSE IF AnyIn(next_topic_keywords, decision)
       THEN /\ AskOrEndTopic(s_questions, question_counter + 1, <<>>)
            /\ UNCHANGED <<s_t, follow_up_questions, s_f, follow_up_counter>>
       ELSE /\ NextFollowUp(follow_up_questions, s_f, 0, <<>>)
            /\ UNCHANGED <<s_t, follow_up_questions>>
    /\ UNCHANGED <<s_stored, s_topics, s_questions>>
    /\ UNCHANGED notSessVars

\* the answer to the next-or-continue prompt arrives
FollowUpDecision(decision) ==
    /\ s_pc = "await_fu_decision"
    /\ s_from' = s_pc
    /\ s_in' = decision
    /\ s_reply' = NoReply
    /\ IF lower(decision) \in exit_commands
       THEN SayGoodbye
       ELSE IF AnyIn(next_topic_keywords, decision)
       THEN /\ AskOrEndTopic(s_questions, Len(s_questions) + 1, <<>>)
            /\ UNCHANGED <<s_t, follow_up_questions, s_f, follow_up_counter>>
       ELSE /\ NextFollowUp(follow_up_questions, s_f, 0, <<>>)
            /\ UNCHANGED <<s_t, follow_up_questions>>
    /\ UNCHANGED <<s_stored, s_topics, s_questions>>
    /\ UNCHANGED notSessVars

\* the answer to the prompt at the end of a topic arrives
TopicDecision(continue_session) ==
    /\ s_pc = "await_topic_decision"
    /\ s_from' = s_pc
    /\ s_in' = continue_session
    /\ s_reply' = NoReply
    /\ IF ~AnyIn(yes_responses, continue_session)
       THEN SayGoodbye
       ELSE /\ AdvanceTopic(<<>>)
            /\ UNCHANGED <<question_counter, follow_up_questions, s_f, follow_up_counter>>
    /\ UNCHANGED <<s_stored, s_topics, s_questions>>
    /\ UNCHANGED notSessVars

AnswerArrives == \E user_answer \in UserInputs : Answer(user_answer)

FollowUpAnswerArrives == \E follow_up_answer \in UserInputs : FollowUpAnswer(follow_up_answer)

FollowUpDecisionArrives == \E decision \in UserInputs : FollowUpDecision(decision)

TopicDecisionArrives == \E continue_session \in UserInputs : TopicDecision(continue_session)

SessionNext ==
    \/ SessionStart
    \/ IntroReturns
    \/ QuestionsReturn
    \/ AnswerArrives
    \/ EvaluationReturns
    \/ FollowUpAnswerArrives
    \/ FollowUpDecisionArrives
    \/ TopicDecisionArrives

\* the points where the session waits for the user
SessionInputPoints ==
    {"await_answer", "await_followup", "await_fu_decision", "await_topic_decision"}

\* the points where the session waits for the collaborator
SessionCallPoints == {"call_intro", "call_gen", "call_eval"}

\* what an interrupted read or call raises
KeyboardInterrupt == <<"KeyboardInterrupt">>

\* An external interrupt arrives while the session is blocked.  input() and the
\* collaborator call raise KeyboardInterrupt, which no except clause between the
\* blocked call and the caller of run_interactive_session catches (the clauses of
\* the trainer catch Exception only), so it leaves the session.  The voice input
\* handler catches an interrupt of the recording and falls back to input(), where
\* the session is blocked as before.
Interrupt ==
    /\ s_pc \in SessionInputPoints \cup SessionCallPoints
    /\ s_from' = s_pc
    /\ s_in' = KeyboardInterrupt
    /\ s_reply' = NoReply
    /\ s_pc' = "interrupted"
    /\ s_out' = <<>>
    /\ UNCHANGED <<s_stored, s_topics, s_t, s_questions, question_counter,
                   follow_up_questions, s_f, follow_up_counter>>
    /\ UNCHANGED notSessVars

\* the session with external interrupts
SessionInterruptNext ==
    \/ SessionStart
    \/ IntroReturns
    \/ QuestionsReturn
    \/ AnswerArrives
    \/ EvaluationReturns
    \/ FollowUpAnswerArrives
    \/ FollowUpDecisionArrives
    \/ TopicDecisionArrives
    \/ Interrupt

\* C27: an external interrupt that arrives while the session is blocked ends the
\* session with the goodbye message as the only output.
C27_InterruptEndsCleanly ==
    [][s_in' = KeyboardInterrupt => (s_pc' = "done" /\ s_out' = <<Goodbye>>)]_vars

\* C4: at every point where the session waits for input, an exit word in any
\* letter case ends the session: the step that takes it shows the goodbye message
\* and nothing else, and leads to the end, from where no step follows (so no
\* question, follow-up, prompt or collaborator call).
C4_ExitEndsSession ==
    [][/\ s_pc # "done"
       /\ (/\ s_pc \in SessionInputPoints
           /\ lower(s_in') \in {<<"e", "x", "i", "t">>, <<"q", "u", "i", "t">>,
                                <<"b", "e", "e", "n", "d", "e", "n">>,
                                <<"e", "n", "d", "e">>, <<"s", "t", "o", "p">>,
                                <<"s", "c", "h", "l", "i", "e", "ß", "e", "n">>})
          => (s_pc' = "done" /\ s_out' = <<Goodbye>>)]_vars

\* C16: when no topic file loads (each is absent or fails to load), the first step
\* of the session shows the no-topics message and nothing else, takes no input and
\* ends the session; the session is never in a state where it waits for the user or
\* for the collaborator.
C16_NoTopicsEndsSession ==
    /\ []((\A k \in DOMAIN s_stored : s_stored[k] \in {"absent", "corrupt"})
            => s_pc \in {"start", "done"})
    /\ [][(\A k \in DOMAIN s_stored : s_stored[k] \in {"absent", "corrupt"}) =>
             /\ s_pc = "start"
             /\ s_pc' = "done"
             /\ s_in' = NoInput
             /\ s_out' = <<[kind |-> "no_topics", n |-> 0, text |-> <<>>]>>]_vars

\* C16: the session ended on a directory that holds a topic file that does not load
C16_Witness ==
    /\ s_pc = "done"
    /\ s_from = "start"
    /\ s_stored[1] = "corrupt"
    /\ s_stored[2] = "absent"
    /\ s_out = <<[kind |-> "no_topics", n |-> 0, text |-> <<>>]>>

\* the kinds of a sequence of outputs
Kinds(out) == [k \in 1..Len(out) |-> out[k].kind]

\* the words of the claims, written out
ExitWords ==
    { <<"e", "x", "i", "t">>, <<"q", "u", "i", "t">>,
      <<"b", "e", "e", "n", "d", "e", "n">>, <<"e", "n", "d", "e">>,
      <<"s", "t", "o", "p">>, <<"s", "c", "h", "l", "i", "e", "ß", "e", "n">> }

AffirmativeWords == { <<"j", "a">>, <<"j">>, <<"y", "e", "s">>, <<"y">> }

TerminalKinds == {"goodbye", "completion", "no_topics"}

\* C17: at the end-of-topic decision a response that is not one of the words ja, j,
\* yes, y (in any letter case) ends the session with the goodbye message.
C17_OnlyAffirmativeWordAdvances ==
    [][(s_pc = "await_topic_decision" /\ lower(s_in') \notin AffirmativeWords) =>
           (s_pc' = "done" /\ s_out' = <<Goodbye>>)]_vars

\* C18: the step that ends the session shows exactly one terminal message, as its
\* last output; no other step shows one and no step follows the end, so a run never
\* shows two.  The completion message is shown only by a step that passes the last
\* topic of the shuffled list (an advancing end-of-topic decision, or the skip of the
\* last topic); the goodbye message only by a step that took an exit word or a
\* response to the end-of-topic decision that is not an affirmative word.
C18_OneTerminalMessage ==
    [][/\ s_pc # "done"
       /\ s_pc' = "done" =>
              /\ s_out' # <<>>
              /\ s_out'[Len(s_out')].kind \in TerminalKinds
              /\ \A k \in 1..(Len(s_out') - 1) : s_out'[k].kind \notin TerminalKinds
       /\ s_pc' # "done" => \A k \in 1..Len(s_out') : s_out'[k].kind \notin TerminalKinds
       /\ (\E k \in 1..Len(s_out') : s_out'[k].kind = "completion") =>
              /\ s_pc \in {"await_topic_decision", "call_gen"}
              /\ s_t = Len(s_topics)
       /\ (\E k \in 1..Len(s_out') : s_out'[k].kind = "goodbye") =>
              /\ s_pc \in SessionInputPoints
              /\ \/ lower(s_in') \in ExitWords
                 \/ s_pc = "await_topic_decision" /\ lower(s_in') \notin AffirmativeWords]_vars

\* C18: the second of two topics was left with "Ja": the completion message
C18_Witness ==
    /\ s_pc = "done"
    /\ s_from = "await_topic_decision"
    /\ Len(s_topics) = 2
    /\ s_in = <<"J", "a">>
    /\ Kinds(s_out) = <<"completion">>

\* C19: step by step, as long as the batch is not empty, the evaluation brings no
\* follow-up, the input is no exit word and the end-of-topic response is an
\* affirmative word: the intro of the topic the loop is at, in the shuffled order,
\* is followed by the first question; an answer is followed by one feedback and
\* then by the next question of the batch, or after the last one by the one
\* end-of-topic prompt; the affirmative response leads to the next topic, one
\* further, or after the last topic to the completion message.  The session waits
\* for a follow-up answer or a follow-up decision only if the evaluation brought a
\* follow-up.
C19_PlainRunTranscript ==
    /\ [](s_pc \in {"await_followup", "await_fu_decision"} => follow_up_questions # <<>>)
    /\ [][/\ s_pc = "start" /\ s_pc' # "done" =>
                 /\ s_pc' = "call_intro" /\ s_t' = 1
                 /\ {s_topics'[k] : k \in 1..Len(s_topics')} =
                        {k \in DOMAIN s_stored : s_stored[k] = "good"}
                 /\ Len(s_topics') = Cardinality({k \in DOMAIN s_stored : s_stored[k] = "good"})
          /\ s_pc # "start" => s_topics' = s_topics
          /\ s_pc = "call_intro" =>
                 /\ s_pc' = "call_gen" /\ s_t' = s_t
                 /\ Kinds(s_out') = <<"topic">>
                 /\ startswith(s_out'[1].text, TopicHeader(TopicK(s_topics[s_t])))
          /\ s_pc = "call_gen" /\ s_pc' = "await_answer" =>
                 /\ s_t' = s_t /\ question_counter' = 0
                 /\ s_out' = <<Out("question", 1, s_questions'[1].question),
                               Out("prompt_answer", 0, <<>>)>>
          /\ s_pc = "await_answer" /\ lower(s_in') \notin ExitWords =>
                 /\ s_pc' = "call_eval" /\ s_out' = <<>>
                 /\ UNCHANGED <<s_t, s_questions, question_counter>>
          /\ s_pc = "call_eval" /\ follow_up_questions' = <<>> =>
                 /\ UNCHANGED <<s_t, s_questions>>
                 /\ question_counter' = question_counter + 1
                 /\ Len(s_out') >= 2 /\ s_out'[1].kind = "feedback"
                 /\ IF question_counter' < Len(s_questions)
                    THEN /\ s_pc' = "await_answer"
                         /\ Tail(s_out') =
                                <<Out("question", question_counter' + 1,
                                      s_questions[question_counter' + 1].question),
                                  Out("prompt_answer", 0, <<>>)>>
                    ELSE /\ s_pc' = "await_topic_decision"
                         /\ Kinds(Tail(s_out')) = <<"prompt_continue">>
          /\ s_pc = "await_topic_decision" /\ lower(s_in') \in AffirmativeWords =>
                 IF s_t < Len(s_topics)
                 THEN s_pc' = "call_intro" /\ s_t' = s_t + 1 /\ s_out' = <<>>
                 ELSE s_pc' = "done" /\ Kinds(s_out') = <<"completion">>]_vars

\* C19: a run over one topic with a batch of one question: feedback without a
\* follow-up, the end-of-topic prompt answered with "yes", the completion message
C19_Witness ==
    /\ s_pc = "done"
    /\ s_from = "await_topic_decision"
    /\ Len(s_topics) = 1
    /\ Len(s_questions) = 1
    /\ question_counter = 1
    /\ follow_up_questions = <<>>
    /\ s_in = <<"y", "e", "s">>
    /\ Kinds(s_out) = <<"completion">>

\* C20: a step in which question generation returns either sets a non-empty batch
\* and asks its first question, or shows the skip notice of the topic and goes
\* straight on: to the intro call of the next topic, or after the last topic to the
\* completion message.  The session never waits for an answer with an empty batch,
\* and never reaches the end-of-topic decision from the return of the generation.
C20_EmptyBatchSkipsTopic ==
    /\ [](s_pc = "await_answer" => question_counter < Len(s_questions))
    /\ [][s_pc = "call_gen" =>
             \/ /\ s_pc' = "await_answer"
                /\ s_questions' # <<>>
                /\ \A k \in 1..Len(s_out') : s_out'[k].kind # "skip"
             \/ /\ s_t < Len(s_topics)
                /\ s_pc' = "call_intro"
                /\ s_t' = s_t + 1
                /\ s_out' = <<Out("skip", 0, TopicK(s_topics[s_t]))>>
             \/ /\ s_t = Len(s_topics)
                /\ s_pc' = "done"
                /\ s_out' = <<Out("skip", 0, TopicK(s_topics[s_t])),
                              Out("completion", 0, <<>>)>>]_vars

\* C20: the first of two topics was skipped; the session is at the intro call of
\* the second
C20_Witness ==
    /\ s_pc = "call_intro"
    /\ s_from = "call_gen"
    /\ s_t = 2
    /\ Kinds(s_out) = <<"skip">>

\* the advance words of the follow-up decision, written out
AdvanceWords ==
    { <<"n", "ä", "c", "h", "s", "t", "e", "s">>, <<"n", "e", "x", "t">>,
      <<"j", "a">>, <<"y", "e", "s">>, <<"y">>, <<"j">> }

\* C21: an advance word at the follow-up decision moves the question cursor past
\* the end of the batch and leads to the end-of-topic prompt, showing nothing else
\* and leaving the queued follow-ups unasked; the step after the end-of-topic
\* prompt shows no question and no follow-up and leads to the next topic or to the
\* end, so no further main question or follow-up of the topic is displayed.
C21_AdvanceLeavesTopic ==
    [][/\ (s_pc = "await_fu_decision" /\ lower(s_in') \in AdvanceWords) =>
              /\ s_pc' = "await_topic_decision"
              /\ question_counter' > Len(s_questions)
              /\ Kinds(s_out') = <<"prompt_continue">>
              /\ UNCHANGED <<s_t, s_questions, s_f, follow_up_questions>>
       /\ s_pc = "await_topic_decision" =>
              /\ \/ s_pc' = "done"
                 \/ s_pc' = "call_intro" /\ s_t' = s_t + 1
              /\ \A k \in 1..Len(s_out') : s_out'[k].kind \notin {"question", "follow_up"}]_vars

\* C21: "next" at the decision after the first of three queued follow-ups of a
\* question: the two others are dropped and the cursor is past the batch
C21_Witness ==
    /\ s_pc = "await_topic_decision"
    /\ s_from = "await_fu_decision"
    /\ s_in = <<"n", "e", "x", "t">>
    /\ Len(follow_up_questions) = 3
    /\ s_f = 1
    /\ question_counter = Len(s_questions) + 1

\* C22: a response to the follow-up decision that is neither an exit word nor an
\* advance word sets follow_up_counter to 0 and goes on with the queued follow-ups
\* in their order: the next one is asked (and counted, so the counter is 1), or, when
\* none is left, the counter stays 0 and the next question follows.
C22_OtherResponseResumes ==
    [][(/\ s_pc = "await_fu_decision"
        /\ lower(s_in') \notin ExitWords
        /\ lower(s_in') \notin AdvanceWords) =>
           /\ UNCHANGED <<s_t, s_questions, follow_up_questions>>
           /\ IF s_f < Len(follow_up_questions)
              THEN /\ s_pc' = "await_followup"
                   /\ s_f' = s_f + 1
                   /\ follow_up_counter' = 1
                   /\ s_out' = <<Out("follow_up", 0, follow_up_questions[s_f + 1]),
                                 Out("prompt_answer", 0, <<>>)>>
              ELSE /\ follow_up_counter' = 0
                   /\ question_counter' = question_counter + 1
                   /\ s_pc' \in {"await_answer", "await_topic_decision"}]_vars

\* C25: when the evaluator's call fails, the step shows the consolation as the
\* one feedback, queues no follow-up, shows none, and goes on to the next question
\* of the batch (after the last one, to the end-of-topic prompt); the session is in
\* no failed state.
C25_FailedEvaluationMovesOn ==
    [][(s_pc = "call_eval" /\ s_reply' = CallFails) =>
           /\ s_out'[1] = [kind |-> "feedback", n |-> 0, text |-> EvaluationFailed.feedback]
           /\ \A k \in 2..Len(s_out') : s_out'[k].kind \notin {"feedback", "follow_up"}
           /\ follow_up_questions' = <<>>
           /\ question_counter' = question_counter + 1
           /\ UNCHANGED <<s_t, s_questions, follow_up_counter>>
           /\ IF question_counter' < Len(s_questions)
              THEN /\ s_pc' = "await_answer"
                   /\ s_out'[2] = [kind |-> "question", n |-> question_counter' + 1,
                                   text |-> s_questions[question_counter' + 1].question]
              ELSE s_pc' = "await_topic_decision"]_vars

\* C25: the evaluation of the first of several questions failed; the second is asked
C25_Witness ==
    /\ s_pc = "await_answer"
    /\ s_from = "call_eval"
    /\ s_reply = CallFails
    /\ question_counter = 1
    /\ Kinds(s_out) = <<"feedback", "question", "prompt_answer">>

\* C26: a reply of the evaluator that holds none of the three headers, in any
\* letter case, is shown character for character as the feedback; no follow-up is
\* queued or shown and the next question or the end-of-topic prompt follows.
C26_NoHeaderAllFeedback ==
    [][(/\ s_pc = "call_eval"
        /\ s_reply' # CallFails
        /\ \A h \in 1..Len(FollowUpHeaders) : ~contains(lower(s_reply'), FollowUpHeaders[h])) =>
           /\ s_out'[1] = [kind |-> "feedback", n |-> 0, text |-> s_reply']
           /\ \A k \in 2..Len(s_out') : s_out'[k].kind \notin {"feedback", "follow_up"}
           /\ follow_up_questions' = <<>>
           /\ s_pc' \in {"await_answer", "await_topic_decision"}]_vars

\* C26: the reply "Good." to the answer to the last question of a batch
C26_Witness ==
    /\ s_pc = "await_topic_decision"
    /\ s_from = "call_eval"
    /\ s_reply = <<"G", "o", "o", "d", ".">>
    /\ s_out = <<[kind |-> "feedback", n |-> 0, text |-> <<"G", "o", "o", "d", ".">>],
                 [kind |-> "prompt_continue", n |-> 0, text |-> <<>>]>>

\* the header at which _evaluate_answer splits a reply: the first of the list that
\* the reply holds in any letter case
HeaderOf(reply) ==
    FollowUpHeaders[CHOOSE x \in 1..Len(FollowUpHeaders) :
        /\ contains(lower(reply), FollowUpHeaders[x])
        /\ \A y \in 1..(x - 1) : ~contains(lower(reply), FollowUpHeaders[y])]

\* the reply's own text before the first occurrence of its header
TextBeforeHeader(reply) == SubSeq(reply, 1, find(lower(reply), HeaderOf(reply)) - 1)

\* the reply's own text after the first occurrence of its header
TextAfterHeader(reply) ==
    SubSeq(reply, find(lower(reply), HeaderOf(reply)) + Len(HeaderOf(reply)), Len(reply))

\* C40: when the reply of the evaluator holds a follow-up header, the feedback
\* shown is the reply's text before the first occurrence of the header, trimmed and
\* otherwise character for character as in the reply, and the follow-ups are read
\* from the reply's text after it, trimmed and otherwise as in the reply.
C40_SplitKeepsText ==
    [][(/\ s_pc = "call_eval"
        /\ s_reply' # CallFails
        /\ \E h \in 1..Len(FollowUpHeaders) : contains(lower(s_reply'), FollowUpHeaders[h])) =>
           /\ s_out'[1] = [kind |-> "feedback", n |-> 0,
                           text |-> strip(TextBeforeHeader(s_reply'))]
           /\ follow_up_questions' =
                  HandleFollowUpQuestions(strip(TextAfterHeader(s_reply')))]_vars

\* the session was ended by "Quit" at the follow-up decision
C4_Witness ==
    /\ s_pc = "done"
    /\ s_from = "await_fu_decision"
    /\ s_in = <<"Q", "u", "i", "t">>
    /\ s_out = <<Goodbye>>

\* C34: follow_up_counter is between 0 and 4 in every state of the session; after
\* the answer to a follow-up the decision prompt is never shown while the counter
\* is below 3 and is always shown when the counter is 4.
C34_CounterDrivesPrompt ==
    /\ [](follow_up_counter \in 0..4)
    /\ [][s_pc = "await_followup" =>
              /\ follow_up_counter < 3 => s_pc' # "await_fu_decision"
              /\ follow_up_counter = 4 => s_pc' = "await_fu_decision"]_vars

\* C34, amended: as above, the decision prompt being always shown at counter 4 after
\* an answer that is not an exit command; an exit command ends the session instead.
C34_CounterDrivesPromptUnlessExit ==
    /\ [](follow_up_counter \in 0..4)
    /\ [][s_pc = "await_followup" =>
              /\ follow_up_counter < 3 => s_pc' # "await_fu_decision"
              /\ (follow_up_counter = 4 /\ lower(s_in') \notin ExitWords) =>
                    /\ s_pc' = "await_fu_decision"
                    /\ Kinds(s_out') = <<"thanks", "prompt_next_or_continue">>
              /\ (follow_up_counter = 4 /\ lower(s_in') \in ExitWords) =>
                    s_pc' = "done"]_vars

\* C34: the fourth follow-up of a topic was answered and the decision prompt shown
C34_Witness ==
    /\ s_pc = "await_fu_decision"
    /\ s_from = "await_followup"
    /\ follow_up_counter = 4
    /\ lower(s_in) \notin ExitWords

\* C36: the evaluator is called exactly once for each answer to a main question that
\* is not an exit command, after the answer and before anything else is shown; the
\* step after the call shows the feedback first; the evaluator is never called for
\* the answer to a follow-up, which is only thanked for, nor for the response to a
\* decision prompt.
C36_EvaluatorOncePerAnswer ==
    [][/\ (s_pc = "await_answer" /\ lower(s_in') \notin ExitWords) =>
              (s_pc' = "call_eval" /\ s_out' = <<>>)
       /\ s_pc' = "call_eval" => s_pc = "await_answer"
       /\ s_pc = "call_eval" =>
              /\ s_pc' # "call_eval"
              /\ s_out'[1].kind = "feedback"
              /\ \A k \in 2..Len(s_out') : s_out'[k].kind # "feedback"
       /\ s_pc # "call_eval" =>
              \A k \in 1..Len(s_out') : s_out'[k].kind # "feedback"
       /\ (s_pc = "await_followup" /\ lower(s_in') \notin ExitWords) =>
              s_out'[1].kind = "thanks"]_vars

\* C36: the answer to a main question was evaluated and the feedback is shown before
\* the first follow-up
C36_Witness ==
    /\ s_from = "call_eval"
    /\ s_pc = "await_followup"
    /\ Kinds(s_out) = <<"feedback", "follow_up", "prompt_answer">>
    /\ s_reply \in EvaluationReplies

\* some output of kind kind is among out
Shows(out, kind) == \E k \in 1..Len(out) : out[k].kind = kind

\* C33: whatever the topics, the replies and failures of the collaborator and the
\* inputs are, the session reaches its end when every read and every call returns;
\* on the way each topic is visited at most once, at most QUESTIONS_PER_TOPIC main
\* questions are asked per topic, each once, and at most 3 follow-ups are asked per
\* main question, each once.
C33_SessionTerminates ==
    /\ <>(s_pc = "done")
    /\ [](/\ \A a, b \in 1..Len(s_topics) : a # b => s_topics[a] # s_topics[b]
          /\ Len(s_questions) <= 5
          /\ Len(follow_up_questions) <= 3
          /\ s_f <= Len(follow_up_questions))
    /\ [][/\ s_t' \in {s_t, s_t + 1}
          /\ s_pc' = "call_intro" => s_t' = s_t + 1
          /\ Shows(s_out', "question") =>
                /\ question_counter' < Len(s_questions')
                /\ \/ s_pc = "call_gen" /\ question_counter' = 0
                   \/ s_pc # "call_gen" /\ question_counter' > question_counter
                                        /\ s_questions' = s_questions
          /\ Shows(s_out', "follow_up") =>
                \/ s_pc = "call_eval" /\ s_f' = 1
                \/ s_pc # "call_eval" /\ s_f' = s_f + 1
                                       /\ follow_up_questions' = follow_up_questions]_vars

\* C33: a session over two topics ended with the completion message after five
\* questions and three follow-ups of the last one
C33_Witness ==
    /\ s_pc = "done"
    /\ Len(s_topics) = 2
    /\ s_t = 2
    /\ Len(s_questions) = 5
    /\ question_counter = 5
    /\ s_f = 3
    /\ Kinds(s_out) = <<"completion">>

\* no session is compared
KeptIdle == s_kept = {}

\* before the first reset a keeping session may hold either threshold
KeptInit == s_kept = FollowUpThresholds

\* QuestionsReturn, with the reset of the counter at the start of a topic
QuestionsReturnKept ==
    /\ s_pc = "call_gen"
    /\ s_from' = s_pc
    /\ s_in' = NoInput
    /\ \E reply \in LiveQuestionReplies \cup {CallFails} :
         /\ s_reply' = reply
         /\ LET title == TopicK(s_topics[s_t])
                qs == IF reply = CallFails THEN <<>>
                      ELSE LiveParseQuestions(reply, title, QUESTIONS_PER_TOPIC)
            IN  IF qs = <<>>
                THEN /\ AdvanceTopic(<<Out("skip", 0, title)>>)
                     /\ UNCHANGED <<s_questions, question_counter, follow_up_counter>>
                     /\ UNCHANGED s_kept
                ELSE /\ s_questions' = qs
                     /\ follow_up_counter' = 0
                     /\ AskOrEndTopic(qs, 0, <<>>)
                     /\ UNCHANGED s_t
                     /\ s_kept' = FollowUpThresholds
    /\ UNCHANGED <<s_stored, s_topics, follow_up_questions, s_f>>
    /\ UNCHANGED notSessKeptVars

\* FollowUpAnswer, with the thresholds that agree with what the check did
FollowUpAnswerKept(follow_up_answer) ==
    /\ s_pc = "await_followup"
    /\ s_from' = s_pc
    /\ s_in' = follow_up_answer
    /\ s_reply' = NoReply
    /\ IF lower(follow_up_answer) \in exit_commands
       THEN SayGoodbye /\ UNCHANGED s_kept
       ELSE \E threshold \in FollowUpThresholds :
              /\ s_kept' = {t \in s_kept :
                               (follow_up_counter >= t) = (follow_up_counter >= threshold)}
              /\ IF follow_up_counter >= threshold
                 THEN /\ s_pc' = "await_fu_decision"
                      /\ s_out' = <<Out("thanks", 0, <<>>),
                                    Out("prompt_next_or_continue", 0, <<>>)>>
                      /\ UNCHANGED <<s_t, question_counter, follow_up_questions, s_f,
                                     follow_up_counter>>
                 ELSE /\ NextFollowUp(follow_up_questions, s_f, follow_up_counter,
                                      <<Out("thanks", 0, <<>>)>>)
                      /\ UNCHANGED <<s_t, follow_up_questions>>
    /\ UNCHANGED <<s_stored, s_topics, s_questions>>
    /\ UNCHANGED notSessKeptVars

\* FollowUpDecision, with the reset of the counter after a response to go on
FollowUpDecisionKept(decision) ==
    /\ s_pc = "await_fu_decision"
    /\ s_from' = s_pc
    /\ s_in' = decision
    /\ s_reply' = NoReply
    /\ IF lower(decision) \in exit_commands
       THEN SayGoodbye /\ UNCHANGED s_kept
       ELSE IF AnyIn(next_topic_keywords, decision)
       THEN /\ AskOrEndTopic(s_questions, Len(s_questions) + 1, <<>>)
            /\ UNCHANGED <<s_t, follow_up_questions, s_f, follow_up_counter>>
            /\ UNCHANGED s_kept
       ELSE /\ NextFollowUp(follow_up_questions, s_f, 0, <<>>)
            /\ UNCHANGED <<s_t, follow_up_questions>>
            /\ s_kept' = FollowUpThresholds
    /\ UNCHANGED <<s_stored, s_topics, s_questions>>
    /\ UNCHANGED notSessKeptVars

FollowUpAnswerKeptArrives ==
    \E follow_up_answer \in UserInputs : FollowUpAnswerKept(follow_up_answer)

FollowUpDecisionKeptArrives == \E decision \in UserInputs : FollowUpDecisionKept(decision)

SessionKeptNext ==
    \/ SessionStart
    \/ IntroReturns
    \/ QuestionsReturnKept
    \/ AnswerArrives
    \/ EvaluationReturns
    \/ FollowUpAnswerKeptArrives
    \/ FollowUpDecisionKeptArrives
    \/ TopicDecisionArrives

\* C35: the session, which draws a threshold from {3, 4} at every check, and a
\* session that draws it when the follow-up counter is reset and keeps it until the
\* next reset show the same transcripts: whatever the session has shown, some kept
\* threshold would have shown the same (s_kept is never empty), and at every check
\* each threshold the keeping session may hold leads to a step the session can
\* take with a threshold of its own.
C35_SameTranscripts ==
    /\ s_kept # {}
    /\ s_kept \subseteq 3..4
    /\ s_pc = "await_followup" =>
          \A t \in s_kept : \E threshold \in FollowUpThresholds :
              (follow_up_counter >= t) = (follow_up_counter >= threshold)

\* C35: a check at counter 3 went on without the prompt, so only the threshold 4 can
\* have been kept, and the check at counter 4 has shown the prompt
C35_Witness ==
    /\ s_kept = {4}
    /\ s_pc = "await_fu_decision"
    /\ s_from = "await_followup"
    /\ follow_up_counter = 4

----------------------------------------------------------------------------
(* Topic content: TextPreprocessor._generate_topic_content *)

\* the number of relevant chunks that ends the scan
RelevantLimit == 5

\* the number of chunks the synthesis prompt takes
ExcerptLimit == 3

\* the number of chunks the fallback takes
FallbackLimit == 3

\* f"No detailed information available for '{topic_title}'."
NoInformation(title) ==
    <<"N", "o", " ", "d", "e", "t", "a", "i", "l", "e", "d", " ", "i", "n", "f", "o",
      "r", "m", "a", "t", "i", "o", "n", " ", "a", "v", "a", "i", "l", "a", "b", "l",
      "e", " ", "f", "o", "r", " ", "'">>
    \o title \o <<"'", ".">>

\* f"Failed to generate detailed content for '{topic_title}' due to an error."
FailedContent(title) ==
    <<"F", "a", "i", "l", "e", "d", " ", "t", "o", " ", "g", "e", "n", "e", "r", "a",
      "t", "e", " ", "d", "e", "t", "a", "i", "l", "e", "d", " ", "c", "o", "n", "t",
      "e", "n", "t", " ", "f", "o", "r", " ", "'">>
    \o title \o
    <<"'", " ", "d", "u", "e", " ", "t", "o", " ", "a", "n", " ", "e", "r", "r", "o",
      "r", ".">>

\* replies of the relevance query
RelevanceReplies == { <<"Y", "e", "s">>, <<"N", "o">>, <<" ", "Y", "E", "S", ".", NL>> }

\* "yes" in response.strip().lower()
SaysYes(reply) == contains(lower(strip(reply)), <<"y", "e", "s">>)

\* replies of the synthesis call
ContentReplies == { <<"t", "e", "x", "t">> }

\* the chunk lists the generator is called with: chunk k is the text "ck"
ContentChunks(n) == [k \in 1..n |-> <<"c">> \o IntToStr(k)]

\* the generator is not running
ContentIdle ==
    /\ t_pc = "idle"
    /\ t_title = <<>>
    /\ t_chunks = <<>>
    /\ t_i = 0
    /\ relevant_chunks = <<>>
    /\ t_queries = <<>>
    /\ combined_text = <<>>
    /\ t_synth = <<>>
    /\ t_content = <<>>
    /\ t_raised = FALSE

ContentInit ==
    /\ t_pc = "scan"
    /\ t_title = TopicK(1)
    /\ t_chunks \in {ContentChunks(n) : n \in 0..MaxContentChunks}
    /\ t_i = 0
    /\ relevant_chunks = <<>>
    /\ t_queries = <<>>
    /\ combined_text = <<>>
    /\ t_synth = <<>>
    /\ t_content = <<>>
    /\ t_raised = FALSE

\* a variant whose relevance query is not guarded: its failure reaches the caller
AssessChunk_Unguarded ==
    /\ t_pc = "scan"
    /\ t_i < Len(t_chunks)
    /\ Len(relevant_chunks) < RelevantLimit
    /\ t_i' = t_i + 1
    /\ \E reply \in RelevanceReplies \cup {CallFails} :
          /\ t_queries' = Append(t_queries, [chunk |-> t_chunks[t_i + 1], reply |-> reply])
          /\ relevant_chunks' = IF reply # CallFails /\ SaysYes(reply)
                                THEN Append(relevant_chunks, t_chunks[t_i + 1])
                                ELSE relevant_chunks
          /\ t_raised' = (reply = CallFails)
          /\ t_pc' = IF reply = CallFails THEN "raised" ELSE t_pc
    /\ UNCHANGED <<t_title, t_chunks, combined_text, t_synth, t_content>>
    /\ UNCHANGED notContentVars

\* Step 1, one iteration: one relevance query for the chunk at hand; a failed query
\* adds nothing and the loop goes on
AssessChunk ==
    /\ t_pc = "scan"
    /\ t_i < Len(t_chunks)
    /\ Len(relevant_chunks) < RelevantLimit
    /\ t_i' = t_i + 1
    /\ \E reply \in RelevanceReplies \cup {CallFails} :
          /\ t_queries' = Append(t_queries, [chunk |-> t_chunks[t_i + 1], reply |-> reply])
          /\ relevant_chunks' = IF reply # CallFails /\ SaysYes(reply)
                                THEN Append(relevant_chunks, t_chunks[t_i + 1])
                                ELSE relevant_chunks
    /\ UNCHANGED <<t_pc, t_title, t_chunks, combined_text, t_synth, t_content, t_raised>>
    /\ UNCHANGED notContentVars

\* a variant whose fallback takes the first chunk only
FallbackChunks_First(chunk_list) == SubSeq(chunk_list, 1, Min(1, Len(chunk_list)))

\* text_chunks[:min(3, len(text_chunks))]
FallbackChunks(chunk_list) == SubSeq(chunk_list, 1, Min(FallbackLimit, Len(chunk_list)))

\* a variant that joins every relevant chunk
Excerpts_All(relevant) == join(<<NL, NL>>, relevant)

\* "\n\n".join(relevant_chunks[:3])
Excerpts(relevant) ==
    join(<<NL, NL>>, SubSeq(relevant, 1, Min(ExcerptLimit, Len(relevant))))

\* after the loop: the fallback, then the return without a call or the excerpts
SelectChunks ==
    /\ t_pc = "scan"
    /\ t_i = Len(t_chunks) \/ Len(relevant_chunks) >= RelevantLimit
    /\ LET relevant == IF relevant_chunks = <<>> /\ t_chunks # <<>>
                       THEN FallbackChunks(t_chunks)
                       ELSE relevant_chunks
       IN  /\ relevant_chunks' = relevant
           /\ IF relevant = <<>>
              THEN /\ t_pc' = "returned"
                   /\ t_content' = NoInformation(t_title)
                   /\ UNCHANGED combined_text
              ELSE /\ t_pc' = "synthesize"
                   /\ combined_text' = Excerpts(relevant)
                   /\ UNCHANGED t_content
    /\ UNCHANGED <<t_title, t_chunks, t_i, t_queries, t_synth, t_raised>>
    /\ UNCHANGED notContentVars

\* Step 2: the synthesis call and the return
Synthesize ==
    /\ t_pc = "synthesize"
    /\ t_pc' = "returned"
    /\ \E reply \in ContentReplies \cup {CallFails} :
          /\ t_synth' = Append(t_synth, [excerpts |-> combined_text, reply |-> reply])
          /\ t_content' = IF reply = CallFails THEN FailedContent(t_title) ELSE reply
    /\ UNCHANGED <<t_title, t_chunks, t_i, relevant_chunks, t_queries, combined_text,
                   t_raised>>
    /\ UNCHANGED notContentVars

ContentNext == AssessChunk \/ SelectChunks \/ Synthesize

\* the chunks whose relevance query was answered with a yes, in the order of the queries
RECURSIVE JudgedRelevant(_)
JudgedRelevant(queries) ==
    IF queries = <<>> THEN <<>>
    ELSE LET q == queries[Len(queries)]
             before == JudgedRelevant(SubSeq(queries, 1, Len(queries) - 1))
         IN  IF q.reply # CallFails /\ SaysYes(q.reply) THEN Append(before, q.chunk)
             ELSE before

\* C31: the content generator never raises: a failed relevance query counts as not
\* relevant and the scan goes on with the next chunk, and a failed synthesis call
\* returns the failure marker that names the topic.
C31_ContentNeverRaises ==
    /\ t_raised = FALSE
    /\ t_pc \in {"scan", "synthesize", "returned"}
    /\ t_pc = "scan" => (Len(t_queries) = t_i /\ relevant_chunks = JudgedRelevant(t_queries))
    /\ t_pc # "scan" =>
          \/ Len(t_queries) = Len(t_chunks)
          \/ Len(JudgedRelevant(t_queries)) = 5
    /\ (t_pc = "returned" /\ t_synth # <<>> /\ t_synth[Len(t_synth)].reply = CallFails) =>
          /\ t_content = FailedContent(t_title)
          /\ contains(t_content, t_title)

\* C31: the first relevance query failed, the later ones were made, and the synthesis
\* call failed
C31_Witness ==
    /\ t_pc = "returned"
    /\ Len(t_chunks) = 3
    /\ Len(t_queries) = 3
    /\ t_queries[1].reply = CallFails
    /\ JudgedRelevant(t_queries) = <<t_chunks[3]>>
    /\ t_synth[1].reply = CallFails
    /\ t_content = FailedContent(t_title)

\* C37: with no chunk judged relevant (failed queries included) and at least one
\* chunk, the synthesis call uses the first min(3, number of chunks) chunks in order;
\* with no chunk at all no collaborator call is made and the string 'No detailed
\* information available' that names the topic is returned.
C37_FallbackToFirstChunks ==
    t_pc = "returned" =>
        /\ (t_chunks # <<>> /\ JudgedRelevant(t_queries) = <<>>) =>
              /\ Len(t_synth) = 1
              /\ split(t_synth[1].excerpts, <<NL, NL>>)
                    = [k \in 1..Min(3, Len(t_chunks)) |-> t_chunks[k]]
        /\ t_chunks = <<>> =>
              /\ t_queries = <<>>
              /\ t_synth = <<>>
              /\ t_content = NoInformation(t_title)
              /\ contains(t_content, t_title)

\* C37: five chunks, every relevance query failed, the first three were used
C37_Witness ==
    /\ t_pc = "returned"
    /\ Len(t_chunks) = 5
    /\ \A k \in 1..5 : t_queries[k].reply = CallFails
    /\ split(t_synth[1].excerpts, <<NL, NL>>) = <<t_chunks[1], t_chunks[2], t_chunks[3]>>

\* the relevance queries are issued in chunk order, one per chunk, and none after the
\* fifth chunk was judged relevant
QueriesInOrder ==
    /\ Len(t_queries) <= Len(t_chunks)
    /\ \A k \in 1..Len(t_queries) :
          /\ t_queries[k].chunk = t_chunks[k]
          /\ k < Len(t_queries) =>
                Len(JudgedRelevant(SubSeq(t_queries, 1, k))) < 5
    /\ t_pc # "scan" =>
          \/ Len(t_queries) = Len(t_chunks)
          \/ Len(JudgedRelevant(t_queries)) = 5

\* the excerpts of every synthesis call are the first 3 at most of the chunks judged
\* relevant, in chunk order, when a chunk was judged relevant
ExcerptsAreFirstRelevant ==
    \A c \in 1..Len(t_synth) :
        JudgedRelevant(t_queries) # <<>> =>
            split(t_synth[c].excerpts, <<NL, NL>>)
                = SubSeq(JudgedRelevant(t_queries), 1,
                         Min(3, Len(JudgedRelevant(t_queries))))

\* C38: the relevance queries are issued in chunk order, one per chunk, and none
\* after the fifth relevant chunk; the synthesis prompt holds at most the first 3 of
\* the relevant chunks, in chunk order, and exactly one synthesis call is made.
C38_OneSynthesisCall ==
    /\ QueriesInOrder
    /\ ExcerptsAreFirstRelevant
    /\ t_pc = "returned" => Len(t_synth) = 1

\* C38, amended: as above, with exactly one synthesis call when the chunk list is not
\* empty and none when it is empty.
C38_OneSynthesisCallIfChunks ==
    /\ QueriesInOrder
    /\ ExcerptsAreFirstRelevant
    /\ Len(t_synth) <= 1
    /\ t_pc = "returned" => Len(t_synth) = (IF t_chunks = <<>> THEN 0 ELSE 1)

\* C38: six chunks, the first five judged relevant: the sixth was not queried and
\* the prompt holds the first three
C38_Witness ==
    /\ t_pc = "returned"
    /\ Len(t_chunks) = 6
    /\ Len(t_queries) = 5
    /\ JudgedRelevant(t_queries) = SubSeq(t_chunks, 1, 5)
    /\ Len(t_synth) = 1
    /\ split(t_synth[1].excerpts, <<NL, NL>>) = SubSeq(t_chunks, 1, 3)

----------------------------------------------------------------------------
(* The free-text parsers, each called on its own with a reply *)

\* lines a follow-up text is made of
FollowUpTextLines ==
    { <<"1", ".", " ", "W", "h", "y", "?", " ">>,
      <<"2", ".", " ", "H", "o", "w", "?">>,
      <<"-", " ", "b">>,
      <<"*", " ", "e">>,
      <<"c">>,
      <<" ">>,
      <<"1", "2", "3", "4", "5", ".", " ", "d">> }

FollowUpTexts == {join(<<NL>>, ls) : ls \in SeqUpTo(FollowUpTextLines, MaxTextLines)}

\* lines of the form 'N. Title: Description'
NumberedTitleLines ==
    { <<"1", ".", " ", "A", ":", " ", "d">>,
      <<"2", ".", " ", "B", ":", " ", "e">> }

\* lines a batch reply is made of
CandidateTextLines ==
    NumberedTitleLines \cup
    { <<"T", "o", "p", "i", "c", ":", " ", "C">>,
      <<"D", "e", "s", "c", "r", "i", "p", "t", "i", "o", "n", ":", " ", "f">>,
      <<"3", ".", " ", "T", "o", "p", "i", "c", ":", " ", "G">> }

CandidateTexts == {join(<<NL>>, ls) : ls \in SeqUpTo(CandidateTextLines, MaxTextLines)}

\* blocks a question reply is made of
ParserQuestionBlocks ==
    QuestionBlocks \cup
    { <<"F", "r", "a", "g", "e", ":", " ", "c", "?", "\n", "A", "n", "t", "w", "o", "r",
        "t", ":", " ", "k">>,
      <<"Q", ":", " ", "d", "?", " ", "e">>,
      <<"?">>,
      <<"Q", "u", "e", "s", "t", "i", "o", "n", ":", " ", "?">>,
      <<"1", ".", " ", "?">>,
      <<"2", ".", " ", "f", "?", " ", "g", "?", " ", "h">>,
      <<":", " ", "x", "?">> }

ParserQuestionReplies ==
    {join(<<NL, NL>>, bs) : bs \in SeqUpTo(ParserQuestionBlocks, MaxBlocks)}

\* the functions that hold the parsers
ParserNames ==
    { "_handle_follow_up_questions", "_extract_topics_from_chunks",
      "_generate_questions", "_generate_questions_for_topic" }

\* the replies a parser is called with
ParserInputs(name) ==
    CASE name = "_handle_follow_up_questions" -> FollowUpTexts
      [] name = "_extract_topics_from_chunks" -> CandidateTexts
      [] OTHER -> ParserQuestionReplies

\* the title of the topic the questions are asked for
ParserTopicTitle == TopicK(1)

\* no parser is running
ParseIdle ==
    /\ f_pc = "idle"
    /\ f_name = "none"
    /\ f_text = <<>>
    /\ f_result = <<>>

ParseInit ==
    /\ f_pc = "call"
    /\ f_name \in ParserNames
    /\ f_text \in ParserInputs(f_name)
    /\ f_result = <<>>

\* the return of a parser
ParseReturn(result) ==
    /\ f_pc' = "returned"
    /\ f_result' = result
    /\ UNCHANGED <<f_name, f_text>>
    /\ UNCHANGED notParseVars

\* _handle_follow_up_questions(follow_up_text)
CallHandleFollowUpQuestions ==
    /\ f_pc = "call"
    /\ f_name = "_handle_follow_up_questions"
    /\ ParseReturn(HandleFollowUpQuestions(f_text))

\* step 3 of _extract_topics_from_chunks on one batch reply
CallParseCandidates ==
    /\ f_pc = "call"
    /\ f_name = "_extract_topics_from_chunks"
    /\ ParseReturn(ParseCandidates(f_text))

\* the parse of _generate_questions on the reply for the first topic
CallParseQuestions ==
    /\ f_pc = "call"
    /\ f_name = "_generate_questions"
    /\ ParseReturn(ParseQuestions(f_text, <<>>, 0, ParserTopicTitle, MaxNumQuestions))

\* the parse of _generate_questions_for_topic
CallLiveParseQuestions ==
    /\ f_pc = "call"
    /\ f_name = "_generate_questions_for_topic"
    /\ ParseReturn(LiveParseQuestions(f_text, ParserTopicTitle, QUESTIONS_PER_TOPIC))

ParseNext ==
    \/ CallHandleFollowUpQuestions
    \/ CallParseCandidates
    \/ CallParseQuestions
    \/ CallLiveParseQuestions

\* the follow-up text, line by line, each line trimmed
TrimmedLines == [k \in 1..Len(split(f_text, <<NL>>)) |-> strip(split(f_text, <<NL>>)[k])]

\* a trimmed line that begins with a digit and has '. ' within its first five
\* characters, or begins with '- ' or '* '
MarkerLine(line) ==
    \/ /\ Len(line) >= 1
       /\ isdigit(line[1])
       /\ \E k \in 1..4 : k + 1 <= Len(line) /\ line[k] = "." /\ line[k + 1] = " "
    \/ /\ Len(line) >= 2
       /\ line[1] \in {"-", "*"}
       /\ line[2] = " "

\* the positions of the marker lines
MarkerAt == {k \in 1..Len(TrimmedLines) : MarkerLine(TrimmedLines[k])}

\* the follow-up that starts at marker line k: the line and the non-empty lines up to
\* the next marker line, with one space between them
FollowUpFrom(k) ==
    LET later == {m \in MarkerAt : m > k}
        last == IF later = {} THEN Len(TrimmedLines)
                ELSE (CHOOSE m \in later : \A n \in later : m <= n) - 1
        NonEmpty(l) == l # <<>>
    IN  join(<<" ">>, SelectSeq(SubSeq(TrimmedLines, k, last), NonEmpty))

\* C23: the follow-up parser returns at most 3 strings; each marker line starts a
\* new follow-up and every other non-empty line after the first marker line is
\* appended to the current one with one space, so that the r-th follow-up returned
\* is the one of the r-th marker line, and '1. Why? \n2. How?' yields
\* ['1. Why?', '2. How?'].
C23_FollowUpsByMarker ==
    (f_pc = "returned" /\ f_name = "_handle_follow_up_questions") =>
        /\ Len(f_result) <= 3
        /\ MarkerAt # {} =>
              /\ Len(f_result) = Min(3, Cardinality(MarkerAt))
              /\ \A k \in MarkerAt :
                    LET r == Cardinality({m \in MarkerAt : m <= k})
                    IN  r <= 3 => f_result[r] = FollowUpFrom(k)
        /\ f_text = <<"1", ".", " ", "W", "h", "y", "?", " ", "\n", "2", ".", " ", "H", "o", "w", "?">>
              => f_result = <<<<"1", ".", " ", "W", "h", "y", "?">>, <<"2", ".", " ", "H", "o", "w", "?">>>>

\* C23: the example of the claim, and a text of four marker lines cut to three
C23_Witness ==
    /\ f_pc = "returned"
    /\ f_name = "_handle_follow_up_questions"
    /\ \/ /\ f_text = <<"1", ".", " ", "W", "h", "y", "?", " ", "\n", "2", ".", " ", "H", "o", "w", "?">>
          /\ f_result = <<<<"1", ".", " ", "W", "h", "y", "?">>, <<"2", ".", " ", "H", "o", "w", "?">>>>
       \/ /\ Cardinality(MarkerAt) = 4
          /\ Len(f_result) = 3

\* C24: a follow-up text that is non-empty after trimming and has no marker line
\* yields exactly one follow-up, the trimmed text; an empty or blank text yields none.
C24_WholeTextFallback ==
    (f_pc = "returned" /\ f_name = "_handle_follow_up_questions") =>
        /\ strip(f_text) = <<>> => f_result = <<>>
        /\ (strip(f_text) # <<>> /\ MarkerAt = {}) => f_result = <<strip(f_text)>>

\* C24: a text of two lines without a marker came back as one follow-up
C24_Witness ==
    /\ f_pc = "returned"
    /\ f_name = "_handle_follow_up_questions"
    /\ MarkerAt = {}
    /\ Len(TrimmedLines) = 2
    /\ strip(f_text) # <<>>
    /\ f_result = <<strip(f_text)>>

\* the title of a line 'N. Title: Description': the text after the marker and before
\* the colon
NumberedTitle(line) == strip(split1(split1(line, <<".", " ">>)[2], <<":">>)[1])

\* C28: a batch reply made of lines 'N. Title: Description' only yields exactly one
\* candidate per line, whose title is the text after the numeric marker and before
\* the colon.
C28_OneCandidatePerLine ==
    (/\ f_pc = "returned"
     /\ f_name = "_extract_topics_from_chunks"
     /\ f_text # <<>>
     /\ \A k \in 1..Len(split(f_text, <<NL>>)) :
            split(f_text, <<NL>>)[k] \in NumberedTitleLines) =>
        /\ Len(f_result) = Len(split(f_text, <<NL>>))
        /\ \A k \in 1..Len(f_result) :
               f_result[k].title = NumberedTitle(split(f_text, <<NL>>)[k])

\* C29: every question record of the question-block parser, in preprocessing and in
\* the live generation for a topic, has a non-empty question that ends with '?'.
C29_QuestionEndsWithMark ==
    (/\ f_pc = "returned"
     /\ f_name \in {"_generate_questions", "_generate_questions_for_topic"}) =>
        \A k \in 1..Len(f_result) :
            /\ f_result[k].question # <<>>
            /\ f_result[k].question[Len(f_result[k].question)] = "?"

\* C29: a block that is a prefix and a question mark only, and a numbered one
C29_Witness ==
    /\ f_pc = "returned"
    /\ f_name = "_generate_questions"
    /\ Len(f_result) = 2
    /\ f_result[1].question = <<"?">>
    /\ f_text = <<"Q", "u", "e", "s", "t", "i", "o", "n", ":", " ", "?", "\n", "\n", "1", ".", " ", "b", "?", " ", "h">>

----------------------------------------------------------------------------
(* Specifications *)

InitExtract == ExtractInit /\ GenIdle /\ PipeIdle /\ SessionIdle /\ ChunkIdle /\ ParseIdle
    /\ ContentIdle /\ KeptIdle

SpecExtract == InitExtract /\ [][ExtractNext]_vars

InitQuestions == GenInit /\ ExtractIdle /\ PipeIdle /\ SessionIdle /\ ChunkIdle /\ ParseIdle
    /\ ContentIdle /\ KeptIdle

SpecQuestions == InitQuestions /\ [][GenNext]_vars

InitPipeline == PipeInit /\ ExtractIdle /\ GenIdle /\ SessionIdle /\ ChunkIdle /\ ParseIdle
    /\ ContentIdle /\ KeptIdle

SpecPipeline == InitPipeline /\ [][PipeNext]_vars

InitSession == SessionInit /\ ExtractIdle /\ GenIdle /\ PipeIdle /\ ChunkIdle /\ ParseIdle
    /\ ContentIdle /\ KeptIdle

SpecSession == InitSession /\ [][SessionNext]_vars

SpecSessionInterrupt == InitSession /\ [][SessionInterruptNext]_vars

InitSessionKept ==
    SessionInit /\ KeptInit /\ ExtractIdle /\ GenIdle /\ PipeIdle /\ ChunkIdle
    /\ ParseIdle /\ ContentIdle

\* the session together with the thresholds a keeping session could hold
SpecSessionKept == InitSessionKept /\ [][SessionKeptNext]_vars

\* the session when every read and every call returns
SpecSessionLive == InitSession /\ [][SessionNext]_vars /\ WF_vars(SessionNext)

InitChunker == ChunkInit /\ ExtractIdle /\ GenIdle /\ PipeIdle /\ SessionIdle /\ ParseIdle
    /\ ContentIdle /\ KeptIdle

SpecChunker == InitChunker /\ [][ChunkNext]_vars

InitParsers ==
    ParseInit /\ ExtractIdle /\ GenIdle /\ PipeIdle /\ SessionIdle /\ ChunkIdle
    /\ ContentIdle /\ KeptIdle

SpecParsers == InitParsers /\ [][ParseNext]_vars

InitContent ==
    ContentInit /\ ExtractIdle /\ GenIdle /\ PipeIdle /\ SessionIdle /\ ChunkIdle
    /\ ParseIdle /\ KeptIdle

SpecContent == InitContent /\ [][ContentNext]_vars

====
